---- MODULE Spec2Model ----
(***************************************************************************)
(* A model of the memory engine of memory-rs: the in-memory vector store   *)
(* (src/src/vector_store/qdrant.rs) behind its tokio RwLock, and the       *)
(* Memory orchestrator (src/src/memory/main.rs) that calls the Embedder    *)
(* and the store; beside them the EmbeddingCache                            *)
(* (src/src/embeddings/cache.rs) and the Deduplicator                      *)
(* (src/src/memory/dedup.rs), each a value with one owner.                 *)
(*                                                                         *)
(* Numbers.  An f32 value is modelled as a quotient num/den with den > 0,   *)
(* or as NaN.  The vectors used have integral norms, so that every square  *)
(* root below is exact and scores compare as the f32 values do.            *)
(***************************************************************************)
EXTENDS Integers, Sequences, FiniteSets, TLC

VARIABLES
    collections,  \* InMemoryStore.collections: name -> (id -> VectorEntry)
    lock,         \* the RwLock: per caller "none", "read" or "write"
    phase,        \* per caller, position inside a store operation
    scall,        \* per caller, the store operation being executed
    sret,         \* per caller, the result of its last store operation
    mpc,          \* per caller, position inside a Memory operation
    mcall,        \* per caller, the Memory operation being executed
    mret,         \* per caller, the result of its last Memory operation
    mutated,      \* per caller, whether its current Memory call changed the store
    added,        \* history: the requests of the successful add calls, with the item returned
    nextId,       \* number of identifiers generated so far (Uuid::new_v4 is fresh)
    nops,         \* number of operations started
    cache,        \* EmbeddingCache.cache: hash -> embedding
    access_order, \* EmbeddingCache.access_order: hashes, least recently used first
    max_size,     \* EmbeddingCache.max_size
    cret,         \* the last EmbeddingCache call and what it returned
    touched,      \* history: per cached hash, when it was last put or hit by get
    hit,          \* history: per cached hash, when a get last hit it (0: never)
    clock,        \* number of EmbeddingCache calls made
    dedup,        \* the Deduplicator: strategy, cache (hash -> id), similarity_threshold
    dret,         \* the last Deduplicator call and what it returned
    registered,   \* history: the contents registered since Deduplicator::new or clear
    dclock,       \* number of Deduplicator calls made
    given,        \* history: per content, the ids registered since Deduplicator::new or clear, in order
    upsert_pc,    \* per caller, inside upsert's loop: the batch entry it inserts next (0: outside)
    sim,          \* the last cosine similarity computed: function, arguments, value returned
    result,       \* the BatchResult
    rcalls,       \* history: the total given to BatchResult::new, the add_success and add_error calls made
    rret,         \* the last BatchResult call and what it returned
    split         \* the BatchProcessor, the operations given to split_into_batches, what it returned

vars == <<collections, lock, phase, scall, sret, mpc, mcall, mret, mutated, added, nextId, nops,
          cache, access_order, max_size, cret, touched, hit, clock,
          dedup, dret, registered, dclock, given, upsert_pc,
          sim, result, rcalls, rret, split>>
batchVars == <<result, rcalls, rret, split>>
dedupVars == <<dedup, dret, registered, dclock, given>>
cacheVars == <<cache, access_order, max_size, cret, touched, hit, clock>>
\* what the steps of Memory and the one-step bodies of the store leave alone
libVars == <<cacheVars, dedupVars, upsert_pc, sim, batchVars>>
storeVars == <<collections, lock, phase, scall, sret>>
memVars == <<mpc, mcall, mret, mutated, added, nextId>>

-----------------------------------------------------------------------------
(* Bounds of the model *)

\* store operations started by the tasks of one behaviour of Spec
MaxOps == 3
\* Memory calls started by the tasks of one behaviour of SpecMem
MaxMemOps == 2

Procs == {"p1", "p2"}
Users == {"u1", "u2"}
\* the text of a search (the Embedder decides its vector)
Queries == {"c1"}
\* the content given to update
NewContents == {"c2"}
None == "None"
\* what Utc::now() reads: in add, and (twice) in update
AddTimes == {1}
Times == {1, 2}
\* the limit given to Memory::search
Limits == {1, 2}

-----------------------------------------------------------------------------
(* f32 values: NaN, or num/den * 2^(100 * scale) with num, den small integers *)
(* and den > 0.  Scale 0 holds the ordinary values.  Scale 1 holds the large  *)
(* ones, whose products exceed f32::MAX (about 2^128) and overflow to an      *)
(* infinity, written as scale 2; scale -1 holds the small ones, whose         *)
(* products are below the least positive f32 (2^-149) and underflow to 0.0.   *)

F(n, d) == [nan |-> FALSE, num |-> n, den |-> d, scale |-> 0]
FNaN == [nan |-> TRUE, num |-> 0, den |-> 1, scale |-> 0]
FZero == F(0, 1)
\* f32::INFINITY and f32::NEG_INFINITY
FInf(sign) == [nan |-> FALSE, num |-> sign, den |-> 1, scale |-> 2]
IsInf(x) == ~x.nan /\ x.scale = 2
Sign(x) == IF x.num > 0 THEN 1 ELSE IF x.num < 0 THEN -1 ELSE 0

\* the f32 nearest to n/d * 2^(100 * k): overflow gives an infinity, underflow 0.0
Scaled(n, d, k) ==
    IF n = 0 THEN F(0, d)
    ELSE IF k >= 2 THEN FInf(IF n > 0 THEN 1 ELSE -1)
    ELSE IF k <= -2 THEN FZero
    ELSE [nan |-> FALSE, num |-> n, den |-> d, scale |-> k]

FMul(x, y) ==
    IF x.nan \/ y.nan THEN FNaN
    ELSE IF IsInf(x) \/ IsInf(y)
         THEN IF x.num = 0 \/ y.num = 0 THEN FNaN ELSE FInf(Sign(x) * Sign(y))
    ELSE Scaled(x.num * y.num, x.den * y.den, x.scale + y.scale)
\* of two values of different scales the sum is the larger one: the smaller
\* one is below half a unit in its last place
FAdd(x, y) ==
    IF x.nan \/ y.nan THEN FNaN
    ELSE IF IsInf(x) /\ IsInf(y) THEN (IF x.num = y.num THEN x ELSE FNaN)
    ELSE IF IsInf(x) THEN x
    ELSE IF IsInf(y) THEN y
    ELSE IF x.scale = y.scale
         THEN Scaled(x.num * y.den + y.num * x.den, x.den * y.den, x.scale)
    ELSE IF x.num = 0 THEN y
    ELSE IF y.num = 0 THEN x
    ELSE IF x.scale > y.scale THEN x ELSE y
\* x / y, used with y > 0, an infinity or NaN only (a norm that is not 0.0)
FDiv(x, y) ==
    IF x.nan \/ y.nan THEN FNaN
    ELSE IF IsInf(x) THEN (IF IsInf(y) THEN FNaN ELSE x)
    ELSE IF IsInf(y) THEN FZero
    ELSE Scaled(x.num * y.den, x.den * y.num, x.scale - y.scale)
\* exact for the perfect squares the model's vectors produce; the square root
\* of an infinity is the infinity
FSqrt(x) ==
    IF x.nan THEN FNaN
    ELSE IF IsInf(x) THEN x
    ELSE F(CHOOSE r \in 0..x.num : r * r = x.num, 1)

\* the f32 operators < and ==, false when either side is NaN
FLt(s, t) ==
    /\ ~s.nan /\ ~t.nan
    /\ IF s.scale = t.scale THEN s.num * t.den < t.num * s.den
       ELSE \/ t.num > 0 /\ (s.num <= 0 \/ s.scale < t.scale)
            \/ t.num <= 0 /\ s.num < 0 /\ s.scale > t.scale
FEq(s, t) == ~s.nan /\ ~t.nan /\ s.scale = t.scale /\ s.num * t.den = t.num * s.den

\* s.partial_cmp(&t)
partial_cmp(s, t) ==
    IF s.nan \/ t.nan THEN None
    ELSE IF FLt(s, t) THEN "Less"
    ELSE IF FLt(t, s) THEN "Greater"
    ELSE "Equal"

Vec2(x, y) == <<F(x, 1), F(y, 1)>>
\* f32 vectors: unit vectors, an opposite one, one of norm 5, the zero vector,
\* one with a NaN component, one of another length
AllVectors == {Vec2(1, 0), Vec2(0, 1), Vec2(-1, 0), Vec2(3, 4), Vec2(0, 0),
               <<FNaN, F(0, 1)>>, <<F(1, 1)>>}

RECURSIVE DotFrom(_, _, _)
DotFrom(a, b, i) ==
    IF i > Len(a) THEN FZero ELSE FAdd(FMul(a[i], b[i]), DotFrom(a, b, i + 1))

\* a.iter().zip(b.iter()).map(|(x, y)| x * y).sum()
Dot(a, b) == DotFrom(a, b, 1)

cosine_similarity(a, b) ==
    IF Len(a) = 0 \/ Len(b) = 0 \/ Len(a) # Len(b) THEN FZero
    ELSE LET dot_product == Dot(a, b)
             norm_a == FSqrt(Dot(a, a))
             norm_b == FSqrt(Dot(b, b))
         IN  IF FEq(norm_a, FZero) \/ FEq(norm_b, FZero) THEN FZero
             ELSE FDiv(dot_product, FMul(norm_a, norm_b))

\* utils::cosine_similarity (src/src/utils.rs)
utils_cosine_similarity(vec1, vec2) ==
    IF Len(vec1) # Len(vec2) \/ Len(vec1) = 0 THEN FZero
    ELSE LET dot_product == Dot(vec1, vec2)
             norm1 == FSqrt(Dot(vec1, vec1))
             norm2 == FSqrt(Dot(vec2, vec2))
         IN  IF FEq(norm1, FZero) \/ FEq(norm2, FZero) THEN FZero
             ELSE FDiv(dot_product, FMul(norm1, norm2))

-----------------------------------------------------------------------------
(* Values of the store *)

\* Option<f32>
NoThreshold == [some |-> FALSE, val |-> FZero]
Some(x) == [some |-> TRUE, val |-> x]

\* MemoryConfig::get_vector_dimension, the default
get_vector_dimension == 384

\* Memory::get_collection_name, with the default prefix of MemoryConfig
get_collection_prefix == "mem0"
\* a collection name that leaves the user out
get_collection_name_Shared(user_id) == get_collection_prefix

get_collection_name(user_id) == get_collection_prefix \o "_" \o user_id

Names == {get_collection_name(u) : u \in Users}

\* struct VectorMetadata
VectorMetadata(id, user_id, text, memory_type, created_at, updated_at) ==
    [id |-> id, user_id |-> user_id, agent_id |-> None, run_id |-> None,
     text |-> text, memory_type |-> memory_type,
     created_at |-> created_at, updated_at |-> updated_at,
     custom_metadata |-> <<>>]

\* struct VectorEntry
VectorEntry(vector, metadata) == [vector |-> vector, metadata |-> metadata]

\* struct SearchResult
SearchResult(id, score, metadata) == [id |-> id, score |-> score, metadata |-> metadata]

Min(a, b) == IF a < b THEN a ELSE b

\* the arguments of a store call: one record shape for every operation
StoreCallRec(op, name, vector_size, batch, ids, query, limit, threshold) ==
    [op |-> op, name |-> name, vector_size |-> vector_size, batch |-> batch, ids |-> ids,
     query |-> query, limit |-> limit, threshold |-> threshold]
NoCall == StoreCallRec("none", "", 0, <<>>, <<>>, <<>>, 0, NoThreshold)
CreateCollectionCall(name, vector_size) ==
    StoreCallRec("create_collection", name, vector_size, <<>>, <<>>, <<>>, 0, NoThreshold)
CollectionExistsCall(name) == StoreCallRec("collection_exists", name, 0, <<>>, <<>>, <<>>, 0, NoThreshold)
UpsertCall(name, batch) == StoreCallRec("upsert", name, 0, batch, <<>>, <<>>, 0, NoThreshold)
SearchCall(name, query, limit, threshold) ==
    StoreCallRec("search", name, 0, <<>>, <<>>, query, limit, threshold)
DeleteCall(name, ids) == StoreCallRec("delete", name, 0, <<>>, ids, <<>>, 0, NoThreshold)
DeleteCollectionCall(name) == StoreCallRec("delete_collection", name, 0, <<>>, <<>>, <<>>, 0, NoThreshold)
CountCall(name) == StoreCallRec("count", name, 0, <<>>, <<>>, <<>>, 0, NoThreshold)
GetAllCall(name) == StoreCallRec("get_all", name, 0, <<>>, <<>>, <<>>, 0, NoThreshold)

\* Result<T> of a store call: one record shape for every operation
StoreRet(status, err, results, n, flag) ==
    [status |-> status, err |-> err, results |-> results, n |-> n, flag |-> flag]
NoRet == StoreRet("none", "", <<>>, 0, FALSE)
OkUnit == StoreRet("ok", "", <<>>, 0, FALSE)
OkResults(rs) == StoreRet("ok", "", rs, 0, FALSE)
OkCount(n) == StoreRet("ok", "", <<>>, n, FALSE)
OkBool(b) == StoreRet("ok", "", <<>>, 0, b)
\* Error::vector_store(msg)
VectorStoreError(msg) == StoreRet("err", "Vector store error: " \o msg, <<>>, 0, FALSE)
\* the task unwinds: sort_by may panic on a comparison that is no total order
Panicked == StoreRet("panic", "", <<>>, 0, FALSE)

-----------------------------------------------------------------------------
(* InMemoryStore::search, the computation under the read lock *)

\* the score of each entry, as computed in the filter_map closure
Scores(collection, query_vector) ==
    [id \in DOMAIN collection |-> cosine_similarity(query_vector, collection[id].vector)]

\* the filter of the closure: an entry is dropped when score < threshold
PassesThreshold(score, score_threshold) ==
    ~(score_threshold.some /\ FLt(score, score_threshold.val))

Kept(scores, score_threshold) ==
    {id \in DOMAIN scores : PassesThreshold(scores[id], score_threshold)}

\* the comparison given to sort_by: b.1.partial_cmp(&a.1).unwrap_or(Equal)
SortCmp(sa, sb) ==
    LET r == partial_cmp(sb, sa) IN IF r = None THEN "Equal" ELSE r

\* every order in which the HashMap's iterator may yield the ids of S
Orders(S) ==
    {s \in [1..Cardinality(S) -> S] : \A i, j \in 1..Cardinality(S) : i # j => s[i] # s[j]}

\* whether SortCmp is a total order on the scores of S (it is not when a NaN
\* score sits beside two different numbers: NaN "equals" both)
IsTotalOrder(scores, S) ==
    \A a, b, c \in S :
        (SortCmp(scores[a], scores[b]) # "Greater" /\ SortCmp(scores[b], scores[c]) # "Greater")
            => SortCmp(scores[a], scores[c]) # "Greater"

\* sort_by is stable: the sorted orders are the orders with no later element
\* that compares before an earlier one; ties keep the iterator's order, which is any
SortedOrders(scores, S) ==
    {s \in Orders(S) :
        \A i, j \in 1..Cardinality(S) :
            i < j => SortCmp(scores[s[i]], scores[s[j]]) # "Greater"}

\* results.into_iter().take(limit).map(..).collect()
TakeResults(collection, scores, order, limit) ==
    [i \in 1..Min(limit, Len(order)) |->
        SearchResult(order[i], scores[order[i]], collection[order[i]].metadata)]

\* every result the search of one collection can give
SearchOutcomes(collection, query_vector, limit, score_threshold) ==
    LET scores == Scores(collection, query_vector)
        S == Kept(scores, score_threshold)
    IN  IF IsTotalOrder(scores, S)
        THEN {OkResults(TakeResults(collection, scores, o, limit)) : o \in SortedOrders(scores, S)}
        ELSE \* the order is unspecified, and the sort may panic
             {OkResults(TakeResults(collection, scores, o, limit)) : o \in Orders(S)}
                \cup {Panicked}

-----------------------------------------------------------------------------
(* The RwLock around the collection map *)

ReaderOps == {"search", "count", "collection_exists", "get_all"}
WriterOps == {"create_collection", "upsert", "delete", "delete_collection"}

\* a store whose writers take the read guard too
LockMode_AllRead(op) == "read"

\* self.collections.read().await in the readers, .write().await in the writers
LockMode(op) == IF op \in ReaderOps THEN "read" ELSE "write"

\* a lock that grants a read guard while a write guard is held
CanAcquire_ReadersPassWriters(p, mode) ==
    IF mode = "read" THEN TRUE
    ELSE \A q \in Procs \ {p} : lock[q] = "none"

\* tokio::sync::RwLock: any number of read guards, or one write guard
CanAcquire(p, mode) ==
    IF mode = "read"
    THEN \A q \in Procs \ {p} : lock[q] # "write"
    ELSE \A q \in Procs \ {p} : lock[q] = "none"

\* the first await of every store operation: the guard is granted
Acquire(p) ==
    /\ phase[p] = "acquire"
    /\ CanAcquire(p, LockMode(scall[p].op))
    /\ lock' = [lock EXCEPT ![p] = LockMode(scall[p].op)]
    /\ phase' = [phase EXCEPT ![p] = "body"]
    /\ UNCHANGED <<collections, scall, sret, memVars, nops, libVars>>

\* a store whose guard outlives the operation (held by the caller)
Finish_KeepsGuard(p, c, r) ==
    /\ collections' = c
    /\ sret' = [sret EXCEPT ![p] = r]
    /\ phase' = [phase EXCEPT ![p] = "returned"]
    /\ mutated' = [mutated EXCEPT ![p] = mpc[p] # "idle" /\ (mutated[p] \/ c # collections)]
    /\ UNCHANGED <<lock, scall, mpc, mcall, mret, added, nextId, nops, libVars>>

\* a body step of caller p, run under the guard: the map becomes c, the
\* operation returns r (or unwinds) and its guard is dropped
Finish(p, c, r) ==
    /\ collections' = c
    /\ sret' = [sret EXCEPT ![p] = r]
    /\ lock' = [lock EXCEPT ![p] = "none"]
    /\ phase' = [phase EXCEPT ![p] = "returned"]
    /\ mutated' = [mutated EXCEPT ![p] = mpc[p] # "idle" /\ (mutated[p] \/ c # collections)]
    /\ UNCHANGED <<scall, mpc, mcall, mret, added, nextId, nops, libVars>>

\* a task that called the store directly is done with the result
StoreDone(p) ==
    /\ phase[p] = "returned"
    /\ mpc[p] = "idle"
    /\ phase' = [phase EXCEPT ![p] = "none"]
    /\ scall' = [scall EXCEPT ![p] = NoCall]
    /\ sret' = [sret EXCEPT ![p] = NoRet]
    /\ UNCHANGED <<collections, lock, memVars, nops, libVars>>

InBody(p, op) == phase[p] = "body" /\ scall[p].op = op

\* a map with one more key, or one key rebound
Put(f, k, v) == [x \in DOMAIN f \cup {k} |-> IF x = k THEN v ELSE f[x]]
\* a map without the keys of K
Without(f, K) == [x \in DOMAIN f \ K |-> f[x]]
EmptyMap == <<>>

\* an entry that starts from a new map whatever is there: insert(name, HashMap::new())
OrInsertEmpty_Replaces(cs, name) == Put(cs, name, EmptyMap)

\* collections.entry(name).or_insert_with(HashMap::new)
OrInsertEmpty(cs, name) == IF name \in DOMAIN cs THEN cs ELSE Put(cs, name, EmptyMap)

-----------------------------------------------------------------------------
(* impl VectorStoreBase for InMemoryStore: each operation under its guard *)

\* a create_collection that inserts a new map whatever is there: collections.insert(name, HashMap::new())
CreateCollectionBody_Replaces(p) ==
    /\ InBody(p, "create_collection")
    /\ Finish(p, Put(collections, scall[p].name, EmptyMap), OkUnit)

\* a create_collection that creates nothing
CreateCollectionBody_CreatesNothing(p) ==
    /\ InBody(p, "create_collection")
    /\ Finish(p, collections, OkUnit)

CreateCollectionBody(p) ==
    /\ InBody(p, "create_collection")
    /\ Finish(p, OrInsertEmpty(collections, scall[p].name), OkUnit)

CollectionExistsBody(p) ==
    /\ InBody(p, "collection_exists")
    /\ Finish(p, collections, OkBool(scall[p].name \in DOMAIN collections))

\* an insert loop that keeps what an id already maps to: entry(id).or_insert(..)
InsertAll_KeepFirst(collection, vectors, i) ==
    [id \in DOMAIN collection \cup {vectors[j].id : j \in i..Len(vectors)} |->
        IF id \in DOMAIN collection THEN collection[id]
        ELSE LET first == CHOOSE j \in i..Len(vectors) :
                    /\ vectors[j].id = id
                    /\ \A k \in i..Len(vectors) : vectors[k].id = id => j <= k
             IN  VectorEntry(vectors[first].vector, vectors[first].metadata)]

RECURSIVE InsertAll(_, _, _)
\* for (id, vector, metadata) in vectors { collection.insert(id, ..) }
InsertAll(collection, vectors, i) ==
    IF i > Len(vectors) THEN collection
    ELSE InsertAll(Put(collection, vectors[i].id,
                       VectorEntry(vectors[i].vector, vectors[i].metadata)),
                   vectors, i + 1)

\* an upsert that answers a missing collection as search does
UpsertBody_NotFoundOnMissing(p) ==
    /\ InBody(p, "upsert")
    /\ IF scall[p].name \notin DOMAIN collections
       THEN Finish(p, collections,
                   VectorStoreError("Collection not found: " \o scall[p].name))
       ELSE Finish(p, Put(collections, scall[p].name,
                          InsertAll(collections[scall[p].name], scall[p].batch, 1)),
                   OkUnit)

UpsertBody(p) ==
    /\ InBody(p, "upsert")
    /\ LET cs == OrInsertEmpty(collections, scall[p].name)
       IN  Finish(p, Put(cs, scall[p].name, InsertAll(cs[scall[p].name], scall[p].batch, 1)),
                  OkUnit)

\* a search that answers a missing collection with no result
SearchBody_EmptyOnMissing(p) ==
    /\ InBody(p, "search")
    /\ IF scall[p].name \notin DOMAIN collections
       THEN Finish(p, collections, OkResults(<<>>))
       ELSE \E r \in SearchOutcomes(collections[scall[p].name], scall[p].query,
                                    scall[p].limit, scall[p].threshold) :
                Finish(p, collections, r)

SearchBody(p) ==
    /\ InBody(p, "search")
    /\ IF scall[p].name \notin DOMAIN collections
       THEN Finish(p, collections,
                   VectorStoreError("Collection not found: " \o scall[p].name))
       ELSE \E r \in SearchOutcomes(collections[scall[p].name], scall[p].query,
                                    scall[p].limit, scall[p].threshold) :
                Finish(p, collections, r)

Range(s) == {s[i] : i \in DOMAIN s}

\* a delete that reaches the collection through entry(name).or_default()
DeleteBody_CreatesMissing(p) ==
    /\ InBody(p, "delete")
    /\ LET cs == OrInsertEmpty(collections, scall[p].name)
       IN  Finish(p, Put(cs, scall[p].name, Without(cs[scall[p].name], Range(scall[p].ids))),
                  OkUnit)

DeleteBody(p) ==
    /\ InBody(p, "delete")
    /\ IF scall[p].name \in DOMAIN collections
       THEN Finish(p, Put(collections, scall[p].name,
                          Without(collections[scall[p].name], Range(scall[p].ids))),
                   OkUnit)
       ELSE Finish(p, collections, OkUnit)

\* a delete_collection that clears the collection and keeps its name
DeleteCollectionBody_KeepsName(p) ==
    /\ InBody(p, "delete_collection")
    /\ Finish(p, IF scall[p].name \in DOMAIN collections
                 THEN Put(collections, scall[p].name, EmptyMap) ELSE collections,
              OkUnit)

DeleteCollectionBody(p) ==
    /\ InBody(p, "delete_collection")
    /\ Finish(p, Without(collections, {scall[p].name}), OkUnit)

\* a count that answers a missing collection as search does
CountBody_NotFoundOnMissing(p) ==
    /\ InBody(p, "count")
    /\ IF scall[p].name \in DOMAIN collections
       THEN Finish(p, collections, OkCount(Cardinality(DOMAIN collections[scall[p].name])))
       ELSE Finish(p, collections,
                   VectorStoreError("Collection not found: " \o scall[p].name))

\* a count that reaches the collection through entry(name).or_default()
CountBody_CreatesMissing(p) ==
    /\ InBody(p, "count")
    /\ LET cs == OrInsertEmpty(collections, scall[p].name)
       IN  Finish(p, cs, OkCount(Cardinality(DOMAIN cs[scall[p].name])))

CountBody(p) ==
    /\ InBody(p, "count")
    /\ Finish(p, collections,
              OkCount(IF scall[p].name \in DOMAIN collections
                      THEN Cardinality(DOMAIN collections[scall[p].name]) ELSE 0))

-----------------------------------------------------------------------------
(* upsert statement by statement: the entry of the collection, every insert  *)
(* of the loop, and the return that drops the write guard                    *)

\* no caller is inside upsert's loop
NoUpsertRunning == upsert_pc = [p \in Procs |-> 0]

\* what a statement of upsert leaves alone
UpsertKeeps ==
    UNCHANGED <<lock, phase, scall, sret, memVars, nops, cacheVars, dedupVars, sim, batchVars>>

\* let collection = collections.entry(name).or_insert_with(HashMap::new)
UpsertEntry(p) ==
    /\ InBody(p, "upsert")
    /\ upsert_pc[p] = 0
    /\ collections' = OrInsertEmpty(collections, scall[p].name)
    /\ upsert_pc' = [upsert_pc EXCEPT ![p] = 1]
    /\ UpsertKeeps

\* collection.insert(id, VectorEntry { vector, metadata }), for the next entry of the batch
UpsertInsert(p) ==
    /\ InBody(p, "upsert")
    /\ upsert_pc[p] \in 1..Len(scall[p].batch)
    /\ LET e == scall[p].batch[upsert_pc[p]]
       IN  collections' = [collections EXCEPT
                ![scall[p].name] = Put(@, e.id, VectorEntry(e.vector, e.metadata))]
    /\ upsert_pc' = [upsert_pc EXCEPT ![p] = @ + 1]
    /\ UpsertKeeps

\* Ok(()): the loop is over, the guard is dropped
UpsertReturn(p) ==
    /\ InBody(p, "upsert")
    /\ upsert_pc[p] = Len(scall[p].batch) + 1
    /\ collections' = collections
    /\ sret' = [sret EXCEPT ![p] = OkUnit]
    /\ lock' = [lock EXCEPT ![p] = "none"]
    /\ phase' = [phase EXCEPT ![p] = "returned"]
    /\ upsert_pc' = [upsert_pc EXCEPT ![p] = 0]
    /\ UNCHANGED <<scall, memVars, nops, cacheVars, dedupVars, sim, batchVars>>

-----------------------------------------------------------------------------
(* Callers of the store *)

DirectIds == {"a", "b"}
DirectVectors == {Vec2(1, 0), Vec2(-1, 0)}
\* one (id, vector, metadata) of an upsert batch
BatchEntry(id, vector) ==
    [id |-> id, vector |-> vector,
     metadata |-> VectorMetadata(id, "u1", "c1", "fact", 1, 1)]
\* batches: empty, one entry, two ids, one id twice
DirectBatches ==
    {<<>>, <<BatchEntry("a", Vec2(1, 0))>>,
     <<BatchEntry("a", Vec2(1, 0)), BatchEntry("b", Vec2(-1, 0))>>,
     <<BatchEntry("b", Vec2(1, 0)), BatchEntry("b", Vec2(-1, 0))>>}

\* the vector sizes given to create_collection: that of the vectors, and the default
DirectSizes == {2, get_vector_dimension}
\* the id lists given to delete: none, one id, two ids
DirectDeletes == {<<>>, <<"a">>, <<"a", "b">>}

DirectCalls ==
    UNION {
        {CollectionExistsCall(n), DeleteCollectionCall(n), CountCall(n),
         SearchCall(n, Vec2(1, 0), 1, NoThreshold)}
            \cup {CreateCollectionCall(n, d) : d \in DirectSizes}
            \cup {DeleteCall(n, ids) : ids \in DirectDeletes}
            \cup {UpsertCall(n, b) : b \in DirectBatches}
        : n \in Names}

\* a task calls an operation of the store
StoreCall(p) ==
    /\ phase[p] = "none"
    /\ mpc[p] = "idle"
    /\ nops < MaxOps
    /\ \E c \in DirectCalls : scall' = [scall EXCEPT ![p] = c]
    /\ phase' = [phase EXCEPT ![p] = "acquire"]
    /\ nops' = nops + 1
    /\ UNCHANGED libVars
    /\ UNCHANGED <<collections, lock, sret, memVars>>

-----------------------------------------------------------------------------
(* Values of the Memory orchestrator *)

\* utils::compute_hash: the digest is a function of the content alone
compute_hash(content) == "sha256(" \o content \o ")"

\* struct MemoryItem
MemoryItem(id, user_id, content, memory_type, hash, created_at, updated_at) ==
    [id |-> id, user_id |-> user_id, agent_id |-> None, run_id |-> None,
     content |-> content, memory_type |-> memory_type, hash |-> hash,
     created_at |-> created_at, updated_at |-> updated_at, metadata |-> <<>>]
NoItem == MemoryItem("", "", "", "", "", 0, 0)

\* a constructor that reads the clock again for created_at, after updated_at
MemoryItemNew_CreatedLater(id, user_id, content, memory_type, now) ==
    MemoryItem(id, user_id, content, memory_type, compute_hash(content), now + 1, now)

\* MemoryItem::new with the identifier Uuid::new_v4 gave and the time Utc::now gave
MemoryItemNew(id, user_id, content, memory_type, now) ==
    MemoryItem(id, user_id, content, memory_type, compute_hash(content), now, now)

\* a projection that loses the type tag
to_vector_metadata_NoType(m) ==
    [id |-> m.id, user_id |-> m.user_id, agent_id |-> m.agent_id, run_id |-> m.run_id,
     text |-> m.content, memory_type |-> "general",
     created_at |-> m.created_at, updated_at |-> m.updated_at,
     custom_metadata |-> m.metadata]

\* MemoryItem::to_vector_metadata
to_vector_metadata(m) ==
    [id |-> m.id, user_id |-> m.user_id, agent_id |-> m.agent_id, run_id |-> m.run_id,
     text |-> m.content, memory_type |-> m.memory_type,
     created_at |-> m.created_at, updated_at |-> m.updated_at,
     custom_metadata |-> m.metadata]

\* a reconstruction that computes the hash of the stored text again
FromMetadata_Rehash(md) ==
    [id |-> md.id, user_id |-> md.user_id, agent_id |-> md.agent_id, run_id |-> md.run_id,
     content |-> md.text, memory_type |-> md.memory_type, hash |-> compute_hash(md.text),
     created_at |-> md.created_at, updated_at |-> md.updated_at,
     metadata |-> md.custom_metadata]

\* the MemoryItem that Memory::search and Memory::get_all rebuild from a VectorMetadata
FromMetadata(md) ==
    [id |-> md.id, user_id |-> md.user_id, agent_id |-> md.agent_id, run_id |-> md.run_id,
     content |-> md.text, memory_type |-> md.memory_type, hash |-> "",
     created_at |-> md.created_at, updated_at |-> md.updated_at,
     metadata |-> md.custom_metadata]

\* struct SearchResultItem
SearchResultItem(memory, score) == [memory |-> memory, score |-> score]

\* memory_type.unwrap_or("general")
TypeOrDefault(memory_type) == IF memory_type = None THEN "general" ELSE memory_type

\* an identifier source that gives the same identifier again
MemId_Reused(k) == "m1"

\* the identifiers Uuid::new_v4 gives: the k-th differs from all before it
MemId(k) == "m" \o ToString(k)

\* the arguments of a Memory call, and the item it has built
MemCallRec(op, user, content, mtype, id, limit, memory) ==
    [op |-> op, user |-> user, content |-> content, mtype |-> mtype, id |-> id,
     limit |-> limit, memory |-> memory]
NoMemCall == MemCallRec("none", "", "", None, "", 0, NoItem)

\* Result<T> of a Memory call
MemRet(status, err, item, items) ==
    [status |-> status, err |-> err, item |-> item, items |-> items]
NoMemRet == MemRet("none", "", NoItem, <<>>)
MemOk == MemRet("ok", "", NoItem, <<>>)
MemOkItem(m) == MemRet("ok", "", m, <<>>)
MemOkItems(ms) == MemRet("ok", "", NoItem, ms)
MemErr(e) == MemRet("err", e, NoItem, <<>>)
MemPanicked == MemRet("panic", "", NoItem, <<>>)

\* what EmbedderBase::embed may answer: a vector, or Error::EmbeddingError
EmbedVectors == {Vec2(1, 0), Vec2(-1, 0)}
EmbeddingError == "Embedding error"
EmbedOutcomes == {[ok |-> TRUE, vec |-> v] : v \in EmbedVectors} \cup {[ok |-> FALSE, vec |-> <<>>]}

-----------------------------------------------------------------------------
(* EmbeddingCache (src/src/embeddings/cache.rs): a value with one owner, its  *)
(* methods take &mut self, so its calls never overlap                         *)

\* EmbeddingCache calls made in one behaviour of SpecCache
MaxCacheOps == 5

\* the capacities given to EmbeddingCache::new
CacheSizes == {0, 1, 2}
\* the texts given to get and put, and their hashes
CacheTexts == {"t1", "t2", "t3"}
CacheKeys == {compute_hash(t) : t \in CacheTexts}

\* Option<Vec<f32>>::None
NoEmbedding == [some |-> FALSE, val |-> <<>>]

\* struct EmbeddingCache
EmbeddingCache(c, order, m) == [cache |-> c, access_order |-> order, max_size |-> m]
\* EmbeddingCache::new
EmbeddingCacheNew(m) == EmbeddingCache(EmptyMap, <<>>, m)

\* access_order.retain(|h| h != &hash)
Retain(order, hash) == SelectSeq(order, LAMBDA h : h # hash)
\* access_order.retain(..); access_order.push(hash)
Refresh(order, hash) == Append(Retain(order, hash), hash)

\* a get that leaves the access order as it is
get_NoRefresh(self, text) ==
    LET hash == compute_hash(text)
    IN  IF hash \in DOMAIN self.cache
        THEN [self |-> self, ret |-> Some(self.cache[hash])]
        ELSE [self |-> self, ret |-> NoEmbedding]

\* EmbeddingCache::get: the cache after the call, and the Option returned
get(self, text) ==
    LET hash == compute_hash(text)
    IN  IF hash \in DOMAIN self.cache
        THEN [self |-> [self EXCEPT !.access_order = Refresh(@, hash)],
              ret |-> Some(self.cache[hash])]
        ELSE [self |-> self, ret |-> NoEmbedding]

\* a put that evicts the most recently used hash: access_order.pop()
put_EvictsNewest(self, text, embedding) ==
    LET hash == compute_hash(text)
        full == Cardinality(DOMAIN self.cache) >= self.max_size /\ hash \notin DOMAIN self.cache
        evicted == IF full /\ self.access_order # <<>>
                   THEN [self EXCEPT
                            !.cache = Without(@, {self.access_order[Len(self.access_order)]}),
                            !.access_order = SubSeq(@, 1, Len(@) - 1)]
                   ELSE self
    IN  [evicted EXCEPT !.access_order = Refresh(@, hash),
                        !.cache = Put(@, hash, embedding)]

\* a put that evicts whenever the cache is full, the key being cached or not
put_EvictsForCachedKey(self, text, embedding) ==
    LET hash == compute_hash(text)
        full == Cardinality(DOMAIN self.cache) >= self.max_size
        evicted == IF full /\ self.access_order # <<>>
                   THEN [self EXCEPT !.cache = Without(@, {Head(self.access_order)}),
                                     !.access_order = Tail(@)]
                   ELSE self
    IN  [evicted EXCEPT !.access_order = Refresh(@, hash),
                        !.cache = Put(@, hash, embedding)]

\* EmbeddingCache::put: the cache after the call
put(self, text, embedding) ==
    LET hash == compute_hash(text)
        full == Cardinality(DOMAIN self.cache) >= self.max_size /\ hash \notin DOMAIN self.cache
        evicted == IF full /\ self.access_order # <<>>
                   THEN [self EXCEPT !.cache = Without(@, {Head(self.access_order)}),
                                     !.access_order = Tail(@)]
                   ELSE self
    IN  [evicted EXCEPT !.access_order = Refresh(@, hash),
                        !.cache = Put(@, hash, embedding)]

\* a clear that empties the map only: cache.clear() without access_order.clear()
clear_KeepsOrder(self) == EmbeddingCache(EmptyMap, self.access_order, self.max_size)

\* EmbeddingCache::clear
clear(self) == EmbeddingCache(EmptyMap, <<>>, self.max_size)
\* EmbeddingCache::size
size(self) == Cardinality(DOMAIN self.cache)
\* EmbeddingCache::contains
contains(self, text) == compute_hash(text) \in DOMAIN self.cache

\* the cache the variables hold
Self == EmbeddingCache(cache, access_order, max_size)

\* a call of the cache: its arguments, what it returned, the hashes it
\* removed, what the hash of text mapped to before, and whether the cache was full
CacheCall(op, text, embedding, ret, evicted, old, full) ==
    [op |-> op, text |-> text, embedding |-> embedding, ret |-> ret,
     evicted |-> evicted, old |-> old, full |-> full]
NoCacheCall == CacheCall("none", "", <<>>, NoEmbedding, {}, NoEmbedding, FALSE)

\* the call op(text, embedding) ends: the cache becomes after, the call
\* returned ret; now says whether the call touched the hash of text
CacheStep(op, text, embedding, after, ret, now) ==
    /\ clock < MaxCacheOps
    /\ clock' = clock + 1
    /\ cache' = after.cache
    /\ access_order' = after.access_order
    /\ max_size' = after.max_size
    /\ cret' = CacheCall(op, text, embedding, ret, DOMAIN cache \ DOMAIN after.cache,
                         IF contains(Self, text) THEN Some(cache[compute_hash(text)])
                         ELSE NoEmbedding,
                         size(Self) >= max_size)
    /\ touched' = [k \in CacheKeys |->
                    IF now /\ k = compute_hash(text) THEN clock + 1
                    ELSE IF k \in DOMAIN after.cache THEN touched[k] ELSE 0]
    /\ hit' = [k \in CacheKeys |->
                IF now /\ op = "get" /\ k = compute_hash(text) THEN clock + 1
                ELSE IF k \in DOMAIN after.cache THEN hit[k] ELSE 0]
    /\ UNCHANGED <<storeVars, memVars, nops, dedupVars, upsert_pc, sim, batchVars>>

CachePut ==
    \E text \in CacheTexts, embedding \in EmbedVectors :
        CacheStep("put", text, embedding, put(Self, text, embedding), NoEmbedding, TRUE)

CacheGet ==
    \E text \in CacheTexts :
        CacheStep("get", text, <<>>, get(Self, text).self, get(Self, text).ret,
                  contains(Self, text))

CacheClear == CacheStep("clear", "", <<>>, clear(Self), NoEmbedding, FALSE)

\* a contains that refreshes the recency of a hash it finds, as get does
CacheContains_Refreshes ==
    \E text \in CacheTexts :
        CacheStep("contains", text, <<>>, get(Self, text).self, contains(Self, text), FALSE)

\* contains(&self, text) reads the cache and changes nothing
CacheContains ==
    \E text \in CacheTexts :
        CacheStep("contains", text, <<>>, Self, contains(Self, text), FALSE)

\* no EmbeddingCache is in use: Memory and InMemoryStore hold none
NoEmbeddingCache ==
    /\ cache = EmptyMap
    /\ access_order = <<>>
    /\ max_size = 0
    /\ cret = NoCacheCall
    /\ touched = [k \in CacheKeys |-> 0]
    /\ hit = [k \in CacheKeys |-> 0]
    /\ clock = 0

-----------------------------------------------------------------------------
(* Deduplicator (src/src/memory/dedup.rs) *)

\* Deduplicator calls made in one behaviour of SpecDedup
MaxDedupOps == 5
DeduplicationStrategy == {"Exact", "Similarity", None}
DedupContents == {"c1", "c2"}
DedupIds == {"id_1", "id_2"}
\* Option<String> without a value
NoId == [some |-> FALSE, val |-> ""]

\* Deduplicator::with_threshold(strategy, threshold)
with_threshold(strategy, threshold) ==
    [strategy |-> strategy, cache |-> EmptyMap, similarity_threshold |-> threshold]

\* thresholds a Deduplicator is built with: 0.0, 0.5 and 1.0
DedupThresholds == {F(0, 1), F(1, 2), F(1, 1)}

\* Deduplicator::new(strategy): the threshold is 0.95
DeduplicatorNew(strategy) == with_threshold(strategy, F(19, 20))

\* an is_duplicate that answers true as soon as anything is registered
is_duplicate_AnyRegistered(self, content) ==
    self.strategy # None /\ DOMAIN self.cache # {}

\* an is_duplicate that, with Similarity, waits for vectors to compare and finds none
is_duplicate_SimilarityByVector(self, content) ==
    IF self.strategy # "Exact" THEN FALSE
    ELSE compute_hash(content) \in DOMAIN self.cache

is_duplicate(self, content) ==
    IF self.strategy = None THEN FALSE
    ELSE compute_hash(content) \in DOMAIN self.cache

\* a register that stores under every strategy
register_Always(self, content, id) ==
    [self EXCEPT !.cache = Put(@, compute_hash(content), id)]

\* a register that keeps the id a content already has: entry(hash).or_insert(id)
register_KeepsFirst(self, content, id) ==
    IF self.strategy = None \/ compute_hash(content) \in DOMAIN self.cache THEN self
    ELSE [self EXCEPT !.cache = Put(@, compute_hash(content), id)]

register(self, content, id) ==
    IF self.strategy = None THEN self
    ELSE [self EXCEPT !.cache = Put(@, compute_hash(content), id)]

get_duplicate(self, content) ==
    IF self.strategy = None THEN NoId
    ELSE IF compute_hash(content) \in DOMAIN self.cache
         THEN Some(self.cache[compute_hash(content)])
         ELSE NoId

\* Deduplicator::clear
dedup_clear(self) == [self EXCEPT !.cache = EmptyMap]

cache_size(self) == Cardinality(DOMAIN self.cache)

\* a call of the Deduplicator and what it returned
DedupCall(op, content, id, ret) == [op |-> op, content |-> content, id |-> id, ret |-> ret]
NoDedupCall == DedupCall("none", "", "", FALSE)

\* the call op(content, id) ends: the Deduplicator becomes after, the call
\* returned ret, and the contents registered so far become reg
DedupStep(op, content, id, after, ret, reg) ==
    /\ dclock < MaxDedupOps
    /\ dclock' = dclock + 1
    /\ dedup' = after
    /\ dret' = DedupCall(op, content, id, ret)
    /\ registered' = reg
    /\ given' = IF op = "register"
                THEN Put(given, content,
                         IF content \in DOMAIN given THEN Append(given[content], id) ELSE <<id>>)
                ELSE IF op = "clear" THEN EmptyMap ELSE given
    /\ UNCHANGED <<storeVars, memVars, nops, cacheVars, upsert_pc, sim, batchVars>>

DedupRegister ==
    \E content \in DedupContents, id \in DedupIds :
        DedupStep("register", content, id, register(dedup, content, id), FALSE,
                  registered \cup {content})

DedupIsDuplicate ==
    \E content \in DedupContents :
        DedupStep("is_duplicate", content, "", dedup, is_duplicate(dedup, content), registered)

DedupGetDuplicate ==
    \E content \in DedupContents :
        DedupStep("get_duplicate", content, "", dedup, get_duplicate(dedup, content), registered)

DedupClear == DedupStep("clear", "", "", dedup_clear(dedup), FALSE, {})

DedupCacheSize == DedupStep("cache_size", "", "", dedup, cache_size(dedup), registered)

\* no Deduplicator is in use: Memory::add calls none (main.rs:57-90)
NoDeduplicator ==
    /\ dedup = DeduplicatorNew(None)
    /\ dret = NoDedupCall
    /\ registered = {}
    /\ dclock = 0
    /\ given = EmptyMap

-----------------------------------------------------------------------------
(* Cosine similarity: Deduplicator::compute_similarity, utils::cosine_similarity *)
(* and the store's cosine_similarity, each called on two slices               *)

\* Deduplicator::compute_similarity (an associated function: no self)
compute_similarity(vec1, vec2) ==
    IF Len(vec1) # Len(vec2) \/ Len(vec1) = 0 THEN FZero
    ELSE LET dot_product == Dot(vec1, vec2)
             norm1 == FSqrt(Dot(vec1, vec1))
             norm2 == FSqrt(Dot(vec2, vec2))
         IN  IF FEq(norm1, FZero) \/ FEq(norm2, FZero) THEN FZero
             ELSE FDiv(dot_product, FMul(norm1, norm2))

\* 2^-100 (about 7.9e-31) and 2^100 (about 1.3e30), both f32 values
Small == Scaled(1, 1, -1)
Large == Scaled(1, 1, 1)
\* the slices compared: the store's vectors, the empty one, two orthogonal
\* small ones, a large one, and one orthogonal to (3, 4)
SimilarityVectors ==
    AllVectors \cup {<<>>, <<Small, FZero>>, <<FZero, Small>>, <<Large, FZero>>, Vec2(4, -3)}

SimilarityCall(fn, vec1, vec2, ret) == [fn |-> fn, vec1 |-> vec1, vec2 |-> vec2, ret |-> ret]
\* no similarity has been computed
NoSimilarity == sim = SimilarityCall("none", <<>>, <<>>, FZero)

SimilarityStep(fn, vec1, vec2, ret) ==
    /\ sim' = SimilarityCall(fn, vec1, vec2, ret)
    /\ UNCHANGED <<storeVars, memVars, nops, cacheVars, dedupVars, upsert_pc, batchVars>>

CallComputeSimilarity ==
    \E vec1 \in SimilarityVectors, vec2 \in SimilarityVectors :
        SimilarityStep("Deduplicator::compute_similarity", vec1, vec2,
                       compute_similarity(vec1, vec2))

CallUtilsCosineSimilarity ==
    \E vec1 \in SimilarityVectors, vec2 \in SimilarityVectors :
        SimilarityStep("utils::cosine_similarity", vec1, vec2,
                       utils_cosine_similarity(vec1, vec2))

CallStoreCosineSimilarity ==
    \E a \in SimilarityVectors, b \in SimilarityVectors :
        SimilarityStep("cosine_similarity", a, b, cosine_similarity(a, b))

-----------------------------------------------------------------------------
(* BatchResult and BatchProcessor (src/src/memory/batch.rs) *)

\* add_success and add_error calls made in one behaviour of SpecBatchResult
MaxBatchCalls == 5
\* the longest operation list given to split_into_batches
MaxBatchLen == 4
\* the totals given to BatchResult::new
BatchTotals == 0..3
\* the batch sizes given to BatchProcessor::new; chunks(0) panics
BatchSizes == 0..3
BatchErrors == {"e1", "e2"}

\* BatchOp::add, BatchOp::update and BatchOp::delete
BatchOpAdd(memory_id, content, memory_type) ==
    [op_type |-> "Add", memory_id |-> memory_id, content |-> Some(content),
     memory_type |-> Some(memory_type)]
BatchOpUpdate(memory_id, content) ==
    [op_type |-> "Update", memory_id |-> memory_id, content |-> Some(content),
     memory_type |-> [some |-> FALSE, val |-> ""]]
BatchOpDelete(memory_id) ==
    [op_type |-> "Delete", memory_id |-> memory_id, content |-> [some |-> FALSE, val |-> ""],
     memory_type |-> [some |-> FALSE, val |-> ""]]
BatchOps == {BatchOpAdd("1", "c1", "t1"), BatchOpUpdate("2", "c2"), BatchOpDelete("3")}
\* the operation lists of at most MaxBatchLen operations
BatchOpLists == UNION {[1..n -> BatchOps] : n \in 0..MaxBatchLen}

\* BatchResult::new
BatchResultNew(total) == [total |-> total, successful |-> 0, failed |-> 0, errors |-> <<>>]
\* BatchResult::add_success
add_success(self) == [self EXCEPT !.successful = @ + 1]
\* an add_error that stores the message and does not count the failure
add_error_Uncounted(self, error) == [self EXCEPT !.errors = Append(@, error)]
\* BatchResult::add_error
add_error(self, error) == [self EXCEPT !.failed = @ + 1, !.errors = Append(@, error)]
\* BatchResult::all_succeeded
all_succeeded(self) == self.failed = 0

\* BatchProcessor::new
BatchProcessorNew(batch_size) == [batch_size |-> batch_size, continue_on_error |-> TRUE]

\* slice::chunks(chunk_size) collected, for chunk_size >= 1: consecutive
\* chunks of chunk_size elements, the last one holding what is left
RECURSIVE chunks(_, _)
chunks(ops, chunk_size) ==
    IF Len(ops) = 0 THEN <<>>
    ELSE <<SubSeq(ops, 1, Min(chunk_size, Len(ops)))>>
            \o chunks(SubSeq(ops, Min(chunk_size, Len(ops)) + 1, Len(ops)), chunk_size)

\* a split that drops a last batch shorter than batch_size: chunks_exact
split_into_batches_Exact(self, ops) ==
    IF self.batch_size = 0 THEN [panicked |-> TRUE, batches |-> <<>>]
    ELSE [panicked |-> FALSE,
          batches |-> SelectSeq(chunks(ops, self.batch_size),
                                LAMBDA b : Len(b) = self.batch_size)]

\* BatchProcessor::split_into_batches: chunks panics when batch_size is 0
split_into_batches(self, ops) ==
    IF self.batch_size = 0 THEN [panicked |-> TRUE, batches |-> <<>>]
    ELSE [panicked |-> FALSE, batches |-> chunks(ops, self.batch_size)]

BatchCall(op, ret) == [op |-> op, ret |-> ret]
NoSplit == [called |-> FALSE, self |-> BatchProcessorNew(0), ops |-> <<>>,
            panicked |-> FALSE, batches |-> <<>>]
\* no BatchResult and no BatchProcessor is in use
NoBatch ==
    /\ result = BatchResultNew(0)
    /\ rcalls = [total |-> 0, add_success |-> 0, add_error |-> 0]
    /\ rret = BatchCall("none", FALSE)
    /\ split = NoSplit

BatchResultStep(op, after, ret) ==
    /\ rcalls.add_success + rcalls.add_error < MaxBatchCalls
    /\ result' = after
    /\ rret' = BatchCall(op, ret)
    /\ rcalls' = [rcalls EXCEPT ![op] = @ + 1]
    /\ UNCHANGED <<storeVars, memVars, nops, cacheVars, dedupVars, upsert_pc, sim, split>>

AddSuccess == BatchResultStep("add_success", add_success(result), FALSE)

AddError == \E error \in BatchErrors : BatchResultStep("add_error", add_error(result, error), FALSE)

\* all_succeeded(&self) reads the result
AllSucceeded ==
    /\ rret' = BatchCall("all_succeeded", all_succeeded(result))
    /\ UNCHANGED <<storeVars, memVars, nops, cacheVars, dedupVars, upsert_pc, sim, split,
                   result, rcalls>>

SplitIntoBatches ==
    /\ ~split.called
    /\ \E ops \in BatchOpLists :
        split' = [called |-> TRUE, self |-> split.self, ops |-> ops,
                  panicked |-> split_into_batches(split.self, ops).panicked,
                  batches |-> split_into_batches(split.self, ops).batches]
    /\ UNCHANGED <<storeVars, memVars, nops, cacheVars, dedupVars, upsert_pc, sim,
                   result, rcalls, rret>>

\* InMemoryStore::new, and no call started
Init ==
    /\ collections = EmptyMap
    /\ lock = [p \in Procs |-> "none"]
    /\ phase = [p \in Procs |-> "none"]
    /\ scall = [p \in Procs |-> NoCall]
    /\ sret = [p \in Procs |-> NoRet]
    /\ mpc = [p \in Procs |-> "idle"]
    /\ mcall = [p \in Procs |-> NoMemCall]
    /\ mret = [p \in Procs |-> NoMemRet]
    /\ mutated = [p \in Procs |-> FALSE]
    /\ added = {}
    /\ nextId = 0
    /\ nops = 0
    /\ NoEmbeddingCache
    /\ NoUpsertRunning
    /\ NoSimilarity
    /\ NoBatch
    /\ NoDeduplicator

StoreStep(p) ==
    \/ Acquire(p)
    \/ StoreDone(p)
    \/ CreateCollectionBody(p)
    \/ CollectionExistsBody(p)
    \/ UpsertBody(p)
    \/ SearchBody(p)
    \/ DeleteBody(p)
    \/ DeleteCollectionBody(p)
    \/ CountBody(p)

Next == \E p \in Procs : StoreCall(p) \/ StoreStep(p)

\* concurrent tasks calling the store's operations directly
Spec == Init /\ [][Next]_vars

-----------------------------------------------------------------------------
(* impl MemoryBase for Memory.  A Memory call runs its store calls through    *)
(* Acquire, the operation's body and Release; mpc names the store call or     *)
(* the await the call has reached.                                            *)

\* VectorStoreBase::get_all of the in-memory store: the metadata of every entry
\* of the collection (none when the collection is absent)
StoredMetadata(cs, name) ==
    IF name \in DOMAIN cs THEN {cs[name][id].metadata : id \in DOMAIN cs[name]} ELSE {}

\* get_all under the read guard: the metadata in the order the map's iterator yields them
GetAllBody(p) ==
    /\ InBody(p, "get_all")
    /\ IF scall[p].name \in DOMAIN collections
       THEN \E o \in Orders(DOMAIN collections[scall[p].name]) :
                Finish(p, collections,
                       OkResults([i \in 1..Len(o) |-> collections[scall[p].name][o[i]].metadata]))
       ELSE Finish(p, collections, OkResults(<<>>))

\* a Memory call starts with the store call c; mpc becomes pc
MemStart(p, call, pc, c) ==
    /\ mpc[p] = "idle"
    /\ phase[p] = "none"
    /\ nops < MaxMemOps
    /\ nops' = nops + 1
    /\ UNCHANGED libVars
    /\ mcall' = [mcall EXCEPT ![p] = call]
    /\ mret' = [mret EXCEPT ![p] = NoMemRet]
    /\ mpc' = [mpc EXCEPT ![p] = pc]
    /\ mutated' = [mutated EXCEPT ![p] = FALSE]
    /\ scall' = [scall EXCEPT ![p] = c]
    /\ sret' = [sret EXCEPT ![p] = NoRet]
    /\ phase' = [phase EXCEPT ![p] = "acquire"]
    /\ UNCHANGED <<collections, lock, added, nextId>>

\* the store call of stage pc has returned to Memory
Returned(p, pc) == mpc[p] = pc /\ phase[p] = "returned"

\* Memory issues its next store call
CallStore(p, pc, c) ==
    /\ mpc' = [mpc EXCEPT ![p] = pc]
    /\ scall' = [scall EXCEPT ![p] = c]
    /\ sret' = [sret EXCEPT ![p] = NoRet]
    /\ phase' = [phase EXCEPT ![p] = "acquire"]

\* the Memory call returns r to its caller
MemReturn(p, r) ==
    /\ mpc' = [mpc EXCEPT ![p] = "done"]
    /\ mret' = [mret EXCEPT ![p] = r]
    /\ phase' = [phase EXCEPT ![p] = "none"]
    /\ scall' = [scall EXCEPT ![p] = NoCall]
    /\ sret' = [sret EXCEPT ![p] = NoRet]
    /\ UNCHANGED <<collections, lock, mutated, nops, libVars>>

\* the caller is done with the result
MemDone(p) ==
    /\ mpc[p] = "done"
    /\ mpc' = [mpc EXCEPT ![p] = "idle"]
    /\ mcall' = [mcall EXCEPT ![p] = NoMemCall]
    /\ mret' = [mret EXCEPT ![p] = NoMemRet]
    /\ mutated' = [mutated EXCEPT ![p] = FALSE]
    /\ UNCHANGED <<storeVars, added, nextId, nops, libVars>>

\* the ? operator on the result of a store call
Failed(r) == r.status # "ok"
Propagate(r) == IF r.status = "panic" THEN MemPanicked ELSE MemErr(r.err)

\* Memory::ensure_collection, the first statement of add, search and get_all
EnsureCollectionCall(user_id) ==
    CreateCollectionCall(get_collection_name(user_id), get_vector_dimension)

\* the (user_id, content, memory_type) given to add
AddArg(u, c, t) == [user |-> u, content |-> c, mtype |-> t]
AddArgs == {AddArg("u1", "c1", None), AddArg("u1", "c2", "fact"), AddArg("u2", "c1", "fact")}

\* add: self.ensure_collection(user_id).await?
MemAdd(p) ==
    \E a \in AddArgs :
        MemStart(p, MemCallRec("add", a.user, a.content, a.mtype, "", 0, NoItem), "add_ensure",
                 EnsureCollectionCall(a.user))

\* add: MemoryItem::new(..), then self.embedder.embed(content).await?, then the upsert is called
AddEmbed(p) ==
    /\ Returned(p, "add_ensure")
    /\ IF Failed(sret[p])
       THEN MemReturn(p, Propagate(sret[p])) /\ UNCHANGED <<mcall, added, nextId>>
       ELSE \E now \in AddTimes, e \in EmbedOutcomes :
            LET memory == MemoryItemNew(MemId(nextId + 1), mcall[p].user, mcall[p].content,
                                        TypeOrDefault(mcall[p].mtype), now)
            IN  /\ nextId' = nextId + 1
                /\ IF e.ok
                   THEN /\ mcall' = [mcall EXCEPT ![p].memory = memory]
                        /\ CallStore(p, "add_upsert",
                                     UpsertCall(get_collection_name(mcall[p].user),
                                                <<[id |-> memory.id, vector |-> e.vec,
                                                   metadata |-> to_vector_metadata(memory)]>>))
                        /\ UNCHANGED <<collections, lock, mret, mutated, added, nops, libVars>>
                   ELSE /\ MemReturn(p, MemErr(EmbeddingError))
                        /\ UNCHANGED <<mcall, added>>

\* add: the upsert has returned; Ok(memory)
AddReturn(p) ==
    /\ Returned(p, "add_upsert")
    /\ IF Failed(sret[p])
       THEN MemReturn(p, Propagate(sret[p])) /\ UNCHANGED added
       ELSE /\ MemReturn(p, MemOkItem(mcall[p].memory))
            /\ added' = added \cup {[user |-> mcall[p].user, content |-> mcall[p].content,
                                     mtype |-> mcall[p].mtype, item |-> mcall[p].memory]}
    /\ UNCHANGED <<mcall, nextId>>

\* search: self.ensure_collection(user_id).await?
MemSearch(p) ==
    \E u \in Users, q \in Queries, k \in Limits :
        MemStart(p, MemCallRec("search", u, q, None, "", k, NoItem), "search_ensure",
                 EnsureCollectionCall(u))

\* a search that passes no lower bound
SearchThreshold_None == NoThreshold

\* the lower bound Memory::search passes to the store: Some(0.0)
SearchThreshold == Some(FZero)

\* search: self.embedder.embed(query).await?, then the store's search is called
SearchEmbed(p) ==
    /\ Returned(p, "search_ensure")
    /\ IF Failed(sret[p])
       THEN MemReturn(p, Propagate(sret[p]))
       ELSE \E e \in EmbedOutcomes :
            IF e.ok
            THEN /\ CallStore(p, "search_store",
                              SearchCall(get_collection_name(mcall[p].user), e.vec,
                                         mcall[p].limit, SearchThreshold))
                 /\ UNCHANGED <<collections, lock, mret, mutated, nops, libVars>>
            ELSE MemReturn(p, MemErr(EmbeddingError))
    /\ UNCHANGED <<mcall, added, nextId>>

\* search: the results become SearchResultItems, in the store's order
SearchReturn(p) ==
    /\ Returned(p, "search_store")
    /\ IF Failed(sret[p])
       THEN MemReturn(p, Propagate(sret[p]))
       ELSE MemReturn(p, MemOkItems([i \in 1..Len(sret[p].results) |->
                SearchResultItem(FromMetadata(sret[p].results[i].metadata),
                                 sret[p].results[i].score)]))
    /\ UNCHANGED <<mcall, added, nextId>>

\* the identifiers a caller may pass: one an add has given, or one never given
IdArgs == {MemId(k) : k \in 0..nextId}

\* update: self.vector_store.count("").await, its result unused
MemUpdate(p) ==
    \E id \in IdArgs, c \in NewContents :
        MemStart(p, MemCallRec("update", "", c, None, id, 0, NoItem), "update_count",
                 CountCall(""))

\* update: the placeholder item is built, the content embedded, the embedding dropped
UpdateEmbed(p) ==
    /\ Returned(p, "update_count")
    /\ \E now1 \in AddTimes, now2 \in Times, e \in EmbedOutcomes :
        /\ now1 <= now2
        /\ LET memory == [MemoryItemNew(mcall[p].id, "unknown", mcall[p].content,
                                        "general", now1) EXCEPT !.updated_at = now2]
           IN  IF e.ok THEN MemReturn(p, MemOkItem(memory))
               ELSE MemReturn(p, MemErr(EmbeddingError))
    /\ UNCHANGED <<mcall, added, nextId>>

\* delete: the request is acknowledged, Ok(())
MemDelete(p) ==
    /\ mpc[p] = "idle"
    /\ phase[p] = "none"
    /\ nops < MaxMemOps
    /\ nops' = nops + 1
    /\ UNCHANGED libVars
    /\ \E id \in IdArgs :
        mcall' = [mcall EXCEPT ![p] = MemCallRec("delete", "", "", None, id, 0, NoItem)]
    /\ mret' = [mret EXCEPT ![p] = MemOk]
    /\ mpc' = [mpc EXCEPT ![p] = "done"]
    /\ UNCHANGED <<storeVars, mutated, added, nextId>>

\* get_all: self.ensure_collection(user_id).await?
MemGetAll(p) ==
    \E u \in Users :
        MemStart(p, MemCallRec("get_all", u, "", None, "", 0, NoItem), "getall_ensure",
                 EnsureCollectionCall(u))

\* get_all: self.vector_store.get_all(&collection_name) is called
GetAllStore(p) ==
    /\ Returned(p, "getall_ensure")
    /\ IF Failed(sret[p])
       THEN MemReturn(p, Propagate(sret[p]))
       ELSE /\ CallStore(p, "getall_store", GetAllCall(get_collection_name(mcall[p].user)))
            /\ UNCHANGED <<collections, lock, mret, mutated, nops, libVars>>
    /\ UNCHANGED <<mcall, added, nextId>>

\* get_all: every metadata becomes a MemoryItem
GetAllReturn(p) ==
    /\ Returned(p, "getall_store")
    /\ IF Failed(sret[p])
       THEN MemReturn(p, Propagate(sret[p]))
       ELSE MemReturn(p, MemOkItems([i \in 1..Len(sret[p].results) |->
                FromMetadata(sret[p].results[i])]))
    /\ UNCHANGED <<mcall, added, nextId>>

MemStep(p) ==
    \/ MemAdd(p) \/ AddEmbed(p) \/ AddReturn(p)
    \/ MemSearch(p) \/ SearchEmbed(p) \/ SearchReturn(p)
    \/ MemUpdate(p) \/ UpdateEmbed(p)
    \/ MemDelete(p)
    \/ MemGetAll(p) \/ GetAllStore(p) \/ GetAllReturn(p)
    \/ MemDone(p)

\* the store operations Memory calls
MemStoreStep(p) ==
    \/ Acquire(p)
    \/ CreateCollectionBody(p)
    \/ UpsertBody(p)
    \/ SearchBody(p)
    \/ CountBody(p)
    \/ GetAllBody(p)

MemNext == \E p \in Procs : MemStep(p) \/ MemStoreStep(p)

\* a store that two returned add calls for user u1 have left: add("u1", "c1", None)
\* embedded as (1, 0) and add("u1", "c2", Some("fact")) embedded as (-1, 0)
Seeded1 == MemoryItemNew(MemId(1), "u1", "c1", TypeOrDefault(None), 1)
Seeded2 == MemoryItemNew(MemId(2), "u1", "c2", TypeOrDefault("fact"), 1)
SeededStore ==
    Put(EmptyMap, get_collection_name("u1"),
        Put(Put(EmptyMap, Seeded1.id, VectorEntry(Vec2(1, 0), to_vector_metadata(Seeded1))),
            Seeded2.id, VectorEntry(Vec2(-1, 0), to_vector_metadata(Seeded2))))
SeededAdded ==
    {[user |-> "u1", content |-> "c1", mtype |-> None, item |-> Seeded1],
     [user |-> "u1", content |-> "c2", mtype |-> "fact", item |-> Seeded2]}

\* Memory::new over a new store, or over the store the two add calls have left
InitMem ==
    /\ \/ collections = EmptyMap /\ added = {} /\ nextId = 0
       \/ collections = SeededStore /\ added = SeededAdded /\ nextId = 2
    /\ lock = [p \in Procs |-> "none"]
    /\ phase = [p \in Procs |-> "none"]
    /\ scall = [p \in Procs |-> NoCall]
    /\ sret = [p \in Procs |-> NoRet]
    /\ mpc = [p \in Procs |-> "idle"]
    /\ mcall = [p \in Procs |-> NoMemCall]
    /\ mret = [p \in Procs |-> NoMemRet]
    /\ mutated = [p \in Procs |-> FALSE]
    /\ nops = 0
    /\ NoEmbeddingCache
    /\ NoUpsertRunning
    /\ NoSimilarity
    /\ NoBatch
    /\ NoDeduplicator

\* concurrent tasks calling one Memory over one InMemoryStore
SpecMem == InitMem /\ [][MemNext]_vars

\* the body of search ends, told by its simplest outcome.  It is enabled exactly
\* when SearchBody(p) is, while the caller is in the body of search, and a
\* caller that stays there forever takes neither step: weak fairness of this
\* step and of SearchBody(p) allow the same behaviours of MemNext
SearchBodyEnds(p) ==
    /\ InBody(p, "search")
    /\ Finish(p, collections, OkResults(<<>>))

\* the steps that continue a started Memory call of caller p: the body of its
\* store call once the guard is held, and the statements of Memory after an await
MemContinue(p) ==
    \/ CreateCollectionBody(p) \/ UpsertBody(p) \/ SearchBodyEnds(p) \/ CountBody(p)
    \/ GetAllBody(p)
    \/ AddEmbed(p) \/ AddReturn(p)
    \/ SearchEmbed(p) \/ SearchReturn(p)
    \/ UpdateEmbed(p)
    \/ GetAllStore(p) \/ GetAllReturn(p)

\* the runtime polls every task that can run, the Embedder returns, and the
\* RwLock queues its waiters fairly: a waiter that can be granted the guard
\* again and again is granted it
FairMem == \A p \in Procs : WF_vars(MemContinue(p)) /\ SF_vars(Acquire(p))

SpecMemFair == InitMem /\ [][MemNext]_vars /\ FairMem

-----------------------------------------------------------------------------
(* InMemoryStore::search alone: one task searches a collection that upserts   *)
(* have filled, for every content, query, limit and threshold of the sets     *)
(* below                                                                       *)

\* searches started in one behaviour of SpecSearch
MaxSearches == 1

SearchIds == {"a", "b", "c"}
SearchLimits == {0, 1, 2, 3}
SearchThresholds == {NoThreshold, Some(FZero), Some(F(3, 5)), Some(F(1, 1))}
SearchQueries == {Vec2(1, 0), Vec2(3, 4), Vec2(0, 0), <<FNaN, F(0, 1)>>}
SearchName == get_collection_name("u1")
SearchCaller == CHOOSE p \in Procs : TRUE

\* every collection over SearchIds and AllVectors: upsert can build each
SearchCollections ==
    UNION {{[id \in S |-> VectorEntry(f[id], BatchEntry(id, f[id]).metadata)] :
                f \in [S -> AllVectors]} : S \in SUBSET SearchIds}

InitSearch ==
    /\ \E c \in SearchCollections : collections = Put(EmptyMap, SearchName, c)
    /\ lock = [p \in Procs |-> "none"]
    /\ phase = [p \in Procs |-> "none"]
    /\ scall = [p \in Procs |-> NoCall]
    /\ sret = [p \in Procs |-> NoRet]
    /\ mpc = [p \in Procs |-> "idle"]
    /\ mcall = [p \in Procs |-> NoMemCall]
    /\ mret = [p \in Procs |-> NoMemRet]
    /\ mutated = [p \in Procs |-> FALSE]
    /\ added = {}
    /\ nextId = 0
    /\ nops = 0
    /\ NoEmbeddingCache
    /\ NoUpsertRunning
    /\ NoSimilarity
    /\ NoBatch
    /\ NoDeduplicator

\* the task calls search
SearchStart(p) ==
    /\ phase[p] = "none"
    /\ mpc[p] = "idle"
    /\ nops < MaxSearches
    /\ \E q \in SearchQueries, k \in SearchLimits, t \in SearchThresholds :
        scall' = [scall EXCEPT ![p] = SearchCall(SearchName, q, k, t)]
    /\ phase' = [phase EXCEPT ![p] = "acquire"]
    /\ nops' = nops + 1
    /\ UNCHANGED libVars
    /\ UNCHANGED <<collections, lock, sret, memVars>>

\* the task calls the store's search, or Memory::search
NextSearch ==
    \/ SearchStart(SearchCaller)
    \/ Acquire(SearchCaller)
    \/ SearchBody(SearchCaller)
    \/ StoreDone(SearchCaller)
    \/ MemSearch(SearchCaller)
    \/ CreateCollectionBody(SearchCaller)
    \/ SearchEmbed(SearchCaller)
    \/ SearchReturn(SearchCaller)
    \/ MemDone(SearchCaller)

SpecSearch == InitSearch /\ [][NextSearch]_vars

-----------------------------------------------------------------------------
(* Properties *)

\* a caller is inside an operation, holding the guard on the collection map
Accessing(p) == phase[p] = "body"

\* C1: a writer operation (create_collection, upsert, delete, delete_collection)
\* accesses the collection map exclusively, never together with another writer
\* or a reader; a reader is never kept out by other readers (when no writer
\* holds the map, a waiting reader can be granted the guard).
C1_WritersExclusive ==
    /\ \A p, q \in Procs :
        (p # q /\ Accessing(p) /\ scall[p].op \in WriterOps) => ~Accessing(q)
    /\ \A q \in Procs :
        (phase[q] = "acquire" /\ scall[q].op \in ReaderOps
            /\ \A p \in Procs \ {q} : Accessing(p) => scall[p].op \in ReaderOps)
        => CanAcquire(q, LockMode(scall[q].op))

\* a writer holds the map while a reader waits for it
C1_Witness ==
    \E p, q \in Procs :
        /\ p # q
        /\ Accessing(p) /\ scall[p].op = "upsert"
        /\ phase[q] = "acquire" /\ scall[q].op = "search"
        /\ ~CanAcquire(q, LockMode(scall[q].op))

\* the embed call of add or search has been made and has not returned
Embedding(p) == mpc[p] \in {"add_ensure", "search_ensure"} /\ phase[p] = "returned"

\* C2: in Memory::add and Memory::search the Embedder is never called under
\* the store lock: while embed is pending the caller holds no guard (the one
\* ensure_collection took is dropped, the one of upsert/search not yet taken),
\* and another caller waiting for the lock is granted it unless a third holds it.
C2_EmbedOutsideLock ==
    \A p \in Procs :
        Embedding(p) =>
            /\ lock[p] = "none"
            /\ \A q \in Procs \ {p} :
                (phase[q] = "acquire" /\ \A r \in Procs \ {p, q} : lock[r] = "none")
                    => CanAcquire(q, LockMode(scall[q].op))

\* one caller's embed is pending while another caller's upsert waits for the lock or holds it
C2_Witness ==
    \E p, q \in Procs :
        /\ p # q
        /\ Embedding(p)
        /\ mcall[p].op = "add"
        /\ scall[q].op = "upsert"
        /\ phase[q] \in {"acquire", "body"}

\* C9: search on a collection name that is not in the store returns the
\* vector-store error "Collection not found", never a result list, and
\* leaves the store as it was (the collection is not created).
C9_SearchMissingCollection ==
    [][\A p \in Procs :
        (InBody(p, "search") /\ scall[p].name \notin DOMAIN collections
            /\ phase'[p] = "returned")
        => /\ sret'[p].status = "err"
           /\ sret'[p].err = "Vector store error: Collection not found: " \o scall[p].name
           /\ sret'[p].results = <<>>
           /\ collections' = collections]_vars

\* a search of a missing collection has returned its error
C9_Witness ==
    \E p \in Procs :
        /\ phase[p] = "returned"
        /\ scall[p].op = "search"
        /\ scall[p].name \notin DOMAIN collections
        /\ sret[p].status = "err"

\* what Memory::get_all(user_id) returns when called in this state, as a set
GetAllView(user_id) ==
    {FromMetadata(md) : md \in StoredMetadata(collections, get_collection_name(user_id))}

\* the Memory call of p has returned Ok
ReturnedOk(p, op) == mpc[p] = "done" /\ mcall[p].op = op /\ mret[p].status = "ok"

\* C3: after a successful add(u, c, t), get_all(u) contains an item whose
\* content is c and whose type is t, "general" when t was not given; this
\* stays so after any further add calls for any user.
C3_AddRoundTrip ==
    \A a \in added :
        \E m \in GetAllView(a.user) :
            /\ m.id = a.item.id
            /\ m.content = a.content
            /\ m.memory_type = (IF a.mtype = None THEN "general" ELSE a.mtype)

\* an add with a type and an add without one have returned, and a third add after them
C3_Witness ==
    /\ \E a, b \in added : a.mtype = None /\ b.mtype = "fact"
    /\ \E p \in Procs : ReturnedOk(p, "add") /\ mret[p].item.id \notin {Seeded1.id, Seeded2.id}

\* C4: after delete(memory_id) has succeeded for an item that add(u, ...)
\* stored, the item is no longer in u's collection (get_all(u) does not
\* return it).
C4_DeleteRemoves ==
    \A p \in Procs :
        ReturnedOk(p, "delete") =>
            \A a \in added :
                a.item.id = mcall[p].id
                    => \A m \in GetAllView(a.user) : m.id # mcall[p].id

\* C5: after update(memory_id, c2) has succeeded for an item that
\* add(u, c1, t) stored, the entry with that id in u's collection holds c2,
\* with the same user and type, and the item returned has owner u.
C5_UpdateStores ==
    \A p \in Procs :
        ReturnedOk(p, "update") =>
            \A a \in added :
                a.item.id = mcall[p].id
                    => /\ \E m \in GetAllView(a.user) :
                            /\ m.id = mcall[p].id
                            /\ m.content = mcall[p].content
                            /\ m.user_id = a.user
                            /\ m.memory_type = a.item.memory_type
                       /\ mret[p].item.user_id = a.user

\* C10: when the Embedder fails during add, add returns the embedding error
\* and the call has not changed the store: no entry inserted, no collection
\* created.
C10_NoPartialAdd ==
    \A p \in Procs :
        (mpc[p] = "done" /\ mcall[p].op = "add" /\ mret[p].status = "err"
            /\ mret[p].err = EmbeddingError)
        => ~mutated[p]

\* the entries of u's collection whose similarity to the query is not below 0.0
NotBelowZero(user_id, query_vector) ==
    LET name == get_collection_name(user_id)
    IN  IF name \in DOMAIN collections
        THEN {id \in DOMAIN collections[name] :
                ~FLt(cosine_similarity(query_vector, collections[name][id].vector), FZero)}
        ELSE {}

\* the entries of u's collection
AllOf(user_id) ==
    LET name == get_collection_name(user_id)
    IN  IF name \in DOMAIN collections THEN DOMAIN collections[name] ELSE {}

\* the store search of a Memory::search call returns Ok in this step
MemSearchStep(p) ==
    /\ mpc[p] = "search_store"
    /\ InBody(p, "search")
    /\ phase'[p] = "returned"
    /\ sret'[p].status = "ok"

\* Memory::search returns Ok in this step
MemSearchReturnStep(p) ==
    /\ mpc[p] = "search_store"
    /\ phase[p] = "returned"
    /\ mpc'[p] = "done"
    /\ mret'[p].status = "ok"

\* C8, as claimed: Memory::search(u, q, k) applies no lower score bound; it
\* returns min(k, n) results, n the number of entries of u's collection,
\* entries of negative similarity included.
C8_NoLowerBound ==
    [][\A p \in Procs :
        MemSearchStep(p)
            => Len(sret'[p].results) = Min(mcall[p].limit, Cardinality(AllOf(mcall[p].user)))]_vars

\* C8, amended: Memory::search(u, q, k) passes the lower bound 0.0 to the
\* store; when it returns Ok it returns min(k, n) results, n the number of
\* entries of u's collection whose similarity to the query is not below 0.0,
\* and every entry of negative similarity is left out.
C8_LowerBoundZero ==
    [][\A p \in Procs :
        /\ MemSearchStep(p) =>
            /\ scall[p].name = get_collection_name(mcall[p].user)
            /\ Len(sret'[p].results)
                = Min(mcall[p].limit, Cardinality(NotBelowZero(mcall[p].user, scall[p].query)))
            /\ \A i \in 1..Len(sret'[p].results) :
                sret'[p].results[i].id \in NotBelowZero(mcall[p].user, scall[p].query)
        /\ MemSearchReturnStep(p) =>
            /\ Len(mret'[p].items) = Len(sret[p].results)
            /\ \A i \in 1..Len(sret[p].results) :
                mret'[p].items[i].memory.id = sret[p].results[i].id]_vars

\* a Memory::search over two entries, one of negative similarity, has returned one item
C8_Witness ==
    \E p \in Procs :
        /\ ReturnedOk(p, "search")
        /\ mcall[p].limit = 2
        /\ Cardinality(AllOf(mcall[p].user)) >= 2
        /\ Len(mret[p].items) = 1

\* the store's search returns Ok in this step
StoreSearchStep(p) ==
    /\ InBody(p, "search")
    /\ phase'[p] = "returned"
    /\ sret'[p].status = "ok"

\* the f32 operator >=, false when either side is NaN
FGe(s, t) == FLt(t, s) \/ FEq(s, t)

\* the scores of the searched collection's entries, for the query of p's call
CallScores(p) == Scores(collections[scall[p].name], scall[p].query)
NoNaNScore(p) == \A id \in DOMAIN CallScores(p) : ~CallScores(p)[id].nan

\* C6: for every collection, query, limit k and threshold, search
\* returns at most k results, every returned score is >= the threshold when
\* one is given, and the scores are in non-increasing order.
C6_SearchOrdered ==
    [][\A p \in Procs :
        StoreSearchStep(p) =>
            LET rs == sret'[p].results
            IN  /\ Len(rs) <= scall[p].limit
                /\ scall[p].threshold.some
                    => \A i \in 1..Len(rs) : FGe(rs[i].score, scall[p].threshold.val)
                /\ \A i, j \in 1..Len(rs) : i < j => FGe(rs[i].score, rs[j].score)]_vars

\* What search does keep: at most k results, none with score < threshold;
\* without a NaN score the scores are >= the threshold and in non-increasing
\* order; Memory::search maps the store's results one by one, in their order.
SearchOrderedWithoutNaN ==
    [][\A p \in Procs :
        /\ StoreSearchStep(p) =>
            LET rs == sret'[p].results
            IN  /\ Len(rs) <= scall[p].limit
                /\ scall[p].threshold.some
                    => \A i \in 1..Len(rs) : ~FLt(rs[i].score, scall[p].threshold.val)
                /\ NoNaNScore(p) =>
                    /\ \A i, j \in 1..Len(rs) : i < j => FGe(rs[i].score, rs[j].score)
                    /\ scall[p].threshold.some
                        => \A i \in 1..Len(rs) : FGe(rs[i].score, scall[p].threshold.val)
        /\ MemSearchReturnStep(p) =>
            /\ Len(mret'[p].items) = Len(sret[p].results)
            /\ \A i \in 1..Len(sret[p].results) :
                /\ mret'[p].items[i].memory = FromMetadata(sret[p].results[i].metadata)
                /\ mret'[p].items[i].score = sret[p].results[i].score]_vars

\* the entries that pass the filter of p's call: score < threshold is false
PassingIds(p) ==
    {id \in DOMAIN CallScores(p) :
        ~(scall[p].threshold.some /\ FLt(CallScores(p)[id], scall[p].threshold.val))}

ReturnedIds(rs) == {rs[i].id : i \in 1..Len(rs)}

\* no entry left out has a score strictly greater than the score of a returned entry
BestOnes(p, rs) ==
    \A i \in 1..Len(rs) :
        \A id \in DOMAIN CallScores(p) \ ReturnedIds(rs) :
            ~FLt(rs[i].score, CallScores(p)[id])

\* C7: search returns exactly min(limit, n) results, n the number
\* of entries whose score passes the threshold (all of them without one), and
\* they are the best ones.
C7_SearchBest ==
    [][\A p \in Procs :
        StoreSearchStep(p) =>
            LET rs == sret'[p].results
            IN  /\ Len(rs) = Min(scall[p].limit, Cardinality(PassingIds(p)))
                /\ BestOnes(p, rs)]_vars

\* What search does keep: a search that returns gives min(limit, n) different
\* entries that pass, each with its own score; without a NaN score they are
\* the best ones.
SearchBestWithoutNaN ==
    [][\A p \in Procs :
        StoreSearchStep(p) =>
            LET rs == sret'[p].results
            IN  /\ Len(rs) = Min(scall[p].limit, Cardinality(PassingIds(p)))
                /\ Cardinality(ReturnedIds(rs)) = Len(rs)
                /\ ReturnedIds(rs) \subseteq PassingIds(p)
                /\ \A i \in 1..Len(rs) : rs[i].score = CallScores(p)[rs[i].id]
                /\ NoNaNScore(p) => BestOnes(p, rs)]_vars

-----------------------------------------------------------------------------
(* One Memory and other users of its store: the store is an                   *)
(* Arc<dyn VectorStoreBase> that Memory::new is given, so tasks holding the  *)
(* same Arc call delete_collection while Memory calls run                    *)

\* a task holding the store calls delete_collection on a user's collection
DeleteCollectionStart(p) ==
    /\ phase[p] = "none"
    /\ mpc[p] = "idle"
    /\ nops < MaxMemOps
    /\ \E n \in Names : scall' = [scall EXCEPT ![p] = DeleteCollectionCall(n)]
    /\ phase' = [phase EXCEPT ![p] = "acquire"]
    /\ nops' = nops + 1
    /\ UNCHANGED libVars
    /\ UNCHANGED <<collections, lock, sret, memVars>>

NextShared ==
    \E p \in Procs :
        \/ MemStep(p)
        \/ MemStoreStep(p)
        \/ DeleteCollectionStart(p)
        \/ DeleteCollectionBody(p)
        \/ StoreDone(p)

SpecShared == InitMem /\ [][NextShared]_vars

\* C11: when Memory::search or Memory::get_all targets the user's collection
\* the collection exists, so neither ever fails with a collection-not-found
\* error, under every interleaving with other operations on the store,
\* delete_collection of that collection included.
C11_CollectionExistsWhenTargeted ==
    /\ \A p \in Procs :
        (mpc[p] \in {"search_store", "getall_store"} /\ phase[p] = "body")
            => scall[p].name \in DOMAIN collections
    /\ \A p \in Procs :
        (mpc[p] = "done" /\ mcall[p].op \in {"search", "get_all"})
            => mret[p].err
                # "Vector store error: Collection not found: " \o get_collection_name(mcall[p].user)

-----------------------------------------------------------------------------
(* The operations of InMemoryStore, one by one *)

\* the store operation op of caller p returns in this step
StoreReturns(p, op) == InBody(p, op) /\ phase'[p] = "returned"

\* every collection but name is in cs2 what it is in cs1
OthersUnchanged(cs1, cs2, name) ==
    /\ DOMAIN cs2 \ {name} = DOMAIN cs1 \ {name}
    /\ \A n \in DOMAIN cs1 \ {name} : cs2[n] = cs1[n]

\* C12: after delete_collection(name) the collection is absent, and while it
\* is absent collection_exists(name) is false, count(name) is 0 and search
\* fails with not-found; only a create_collection or an upsert on that name
\* makes it present again; delete_collection changes no other collection.
C12_AfterDeleteCollection ==
    [][/\ \A p \in Procs :
            /\ StoreReturns(p, "delete_collection") =>
                /\ sret'[p] = OkUnit
                /\ scall[p].name \notin DOMAIN collections'
                /\ OthersUnchanged(collections, collections', scall[p].name)
            /\ (StoreReturns(p, "collection_exists") /\ scall[p].name \notin DOMAIN collections)
                => sret'[p] = OkBool(FALSE)
            /\ (StoreReturns(p, "count") /\ scall[p].name \notin DOMAIN collections)
                => sret'[p] = OkCount(0)
            /\ (StoreReturns(p, "search") /\ scall[p].name \notin DOMAIN collections)
                => sret'[p] = VectorStoreError("Collection not found: " \o scall[p].name)
       /\ \A n \in Names :
            (n \notin DOMAIN collections /\ n \in DOMAIN collections')
                => \E p \in Procs :
                    /\ scall[p].name = n
                    /\ StoreReturns(p, "create_collection") \/ StoreReturns(p, "upsert")]_vars

\* delete_collection(name) has returned, another collection is still there,
\* and a count(name) after it has returned 0
C12_Witness ==
    \E p, q \in Procs :
        /\ phase[q] = "returned" /\ scall[q].op = "delete_collection"
        /\ phase[p] = "returned" /\ scall[p].op = "count"
        /\ scall[p].name = scall[q].name
        /\ scall[p].name \notin DOMAIN collections
        /\ sret[p] = OkCount(0)
        /\ \E n \in DOMAIN collections : collections[n] # EmptyMap

\* the entries of collection name, none when it is absent
EntriesOf(cs, name) == IF name \in DOMAIN cs THEN cs[name] ELSE EmptyMap

\* C13: count(name) of a collection that does not exist returns Ok(0) and
\* does not create it; of an existing collection it returns the number of
\* distinct ids stored in it.
C13_Count ==
    [][\A p \in Procs :
        StoreReturns(p, "count") =>
            /\ collections' = collections
            /\ sret'[p].status = "ok"
            /\ sret'[p].n = Cardinality(DOMAIN EntriesOf(collections, scall[p].name))
            /\ scall[p].name \notin DOMAIN collections => sret'[p].n = 0]_vars

\* a count of a collection holding two ids has returned 2
C13_Witness ==
    \E p \in Procs :
        /\ phase[p] = "returned" /\ scall[p].op = "count"
        /\ scall[p].name \in DOMAIN collections
        /\ DOMAIN collections[scall[p].name] = {"a", "b"}
        /\ sret[p] = OkCount(2)

\* C14: create_collection(name, dim) always returns Ok; an absent collection
\* becomes present and empty; a present one keeps all its entries; all other
\* collections are unchanged, whatever dim is.
C14_CreateIdempotent ==
    [][\A p \in Procs :
        StoreReturns(p, "create_collection") =>
            /\ sret'[p] = OkUnit
            /\ scall[p].name \in DOMAIN collections'
            /\ collections'[scall[p].name] =
                (IF scall[p].name \in DOMAIN collections
                 THEN collections[scall[p].name] ELSE EmptyMap)
            /\ OthersUnchanged(collections, collections', scall[p].name)]_vars

\* create_collection with a vector size of 2 has returned on a collection that holds entries
C14_Witness ==
    \E p \in Procs :
        /\ phase[p] = "returned" /\ scall[p].op = "create_collection"
        /\ scall[p].vector_size = 2
        /\ scall[p].name \in DOMAIN collections
        /\ collections[scall[p].name] # EmptyMap

\* the ids of a batch, and the last position of an id in it
BatchIds(batch) == {batch[i].id : i \in 1..Len(batch)}
LastOf(batch, id) ==
    CHOOSE i \in 1..Len(batch) :
        /\ batch[i].id = id
        /\ \A j \in 1..Len(batch) : batch[j].id = id => j <= i

\* C15: after upsert(name, entries) each id of the batch maps to the vector
\* and metadata of its last occurrence in the batch, every other id keeps its
\* entry, the collection counts the distinct ids of the old collection and
\* the batch together, and the same upsert applied again changes nothing.
C15_Upsert ==
    [][\A p \in Procs :
        StoreReturns(p, "upsert") =>
            LET name == scall[p].name
                batch == scall[p].batch
                old == EntriesOf(collections, name)
                new == EntriesOf(collections', name)
            IN  /\ sret'[p] = OkUnit
                /\ \A id \in BatchIds(batch) :
                    /\ id \in DOMAIN new
                    /\ new[id].vector = batch[LastOf(batch, id)].vector
                    /\ new[id].metadata = batch[LastOf(batch, id)].metadata
                /\ \A id \in DOMAIN old \ BatchIds(batch) : id \in DOMAIN new /\ new[id] = old[id]
                /\ Cardinality(DOMAIN new) = Cardinality(DOMAIN old \cup BatchIds(batch))
                /\ Put(collections', name, InsertAll(new, batch, 1)) = collections']_vars

\* an upsert holding the id b twice has returned on a collection that held a:
\* b maps to its last occurrence, a is kept
C15_Witness ==
    \E p \in Procs :
        /\ phase[p] = "returned" /\ scall[p].op = "upsert"
        /\ Len(scall[p].batch) = 2
        /\ BatchIds(scall[p].batch) = {"b"}
        /\ scall[p].name \in DOMAIN collections
        /\ DOMAIN collections[scall[p].name] = {"a", "b"}
        /\ collections[scall[p].name]["b"].vector = scall[p].batch[2].vector
        /\ scall[p].batch[1].vector # scall[p].batch[2].vector

\* C16: upsert on a name that is not in the store never fails: it creates the
\* collection and stores the entries, also when the batch is empty, and
\* collection_exists(name) is true from then on.
C16_UpsertCreates ==
    [][\A p \in Procs :
        /\ (StoreReturns(p, "upsert") /\ scall[p].name \notin DOMAIN collections) =>
            /\ sret'[p] = OkUnit
            /\ scall[p].name \in DOMAIN collections'
            /\ DOMAIN collections'[scall[p].name] = BatchIds(scall[p].batch)
        /\ (StoreReturns(p, "collection_exists") /\ scall[p].name \in DOMAIN collections)
            => sret'[p] = OkBool(TRUE)]_vars

\* an upsert of the empty batch has returned, and collection_exists on its
\* name, still empty, has returned true
C16_Witness ==
    \E p, q \in Procs :
        /\ phase[p] = "returned" /\ scall[p].op = "upsert" /\ scall[p].batch = <<>>
        /\ phase[q] = "returned" /\ scall[q].op = "collection_exists"
        /\ scall[q].name = scall[p].name
        /\ sret[q] = OkBool(TRUE)
        /\ collections[scall[p].name] = EmptyMap

\* C17: delete(name, ids) returns Ok and removes exactly the entries of
\* collection name whose id is in ids; ids not present are ignored; other
\* entries and other collections are unchanged; when the collection does not
\* exist the store is unchanged.
C17_Delete ==
    [][\A p \in Procs :
        StoreReturns(p, "delete") =>
            LET name == scall[p].name
            IN  /\ sret'[p] = OkUnit
                /\ OthersUnchanged(collections, collections', name)
                /\ IF name \in DOMAIN collections
                   THEN /\ name \in DOMAIN collections'
                        /\ DOMAIN collections'[name]
                            = DOMAIN collections[name] \ Range(scall[p].ids)
                        /\ \A id \in DOMAIN collections'[name] :
                            collections'[name][id] = collections[name][id]
                   ELSE name \notin DOMAIN collections']_vars

\* delete of the ids a and b has returned and left its collection empty,
\* while the other collection still holds its entries
C17_Witness ==
    \E p \in Procs :
        /\ phase[p] = "returned" /\ scall[p].op = "delete"
        /\ scall[p].ids = <<"a", "b">>
        /\ scall[p].name \in DOMAIN collections
        /\ collections[scall[p].name] = EmptyMap
        /\ \E n \in DOMAIN collections : collections[n] # EmptyMap

-----------------------------------------------------------------------------
(* EmbeddingCache alone: one owner calls put, get and clear *)

\* EmbeddingCache::new(max_size)
InitCache ==
    /\ collections = EmptyMap
    /\ lock = [p \in Procs |-> "none"]
    /\ phase = [p \in Procs |-> "none"]
    /\ scall = [p \in Procs |-> NoCall]
    /\ sret = [p \in Procs |-> NoRet]
    /\ mpc = [p \in Procs |-> "idle"]
    /\ mcall = [p \in Procs |-> NoMemCall]
    /\ mret = [p \in Procs |-> NoMemRet]
    /\ mutated = [p \in Procs |-> FALSE]
    /\ added = {}
    /\ nextId = 0
    /\ nops = 0
    /\ \E m \in CacheSizes :
        /\ cache = EmbeddingCacheNew(m).cache
        /\ access_order = EmbeddingCacheNew(m).access_order
        /\ max_size = EmbeddingCacheNew(m).max_size
    /\ cret = NoCacheCall
    /\ touched = [k \in CacheKeys |-> 0]
    /\ hit = [k \in CacheKeys |-> 0]
    /\ clock = 0
    /\ NoDeduplicator
    /\ NoUpsertRunning
    /\ NoSimilarity
    /\ NoBatch

NextCache == CachePut \/ CacheGet \/ CacheClear \/ CacheContains

SpecCache == InitCache /\ [][NextCache]_vars

-----------------------------------------------------------------------------
(* Deduplicator alone: one owner calls register, is_duplicate,
   get_duplicate, cache_size and clear *)

\* Deduplicator::new(strategy) or Deduplicator::with_threshold(strategy, threshold)
InitDedup ==
    /\ collections = EmptyMap
    /\ lock = [p \in Procs |-> "none"]
    /\ phase = [p \in Procs |-> "none"]
    /\ scall = [p \in Procs |-> NoCall]
    /\ sret = [p \in Procs |-> NoRet]
    /\ mpc = [p \in Procs |-> "idle"]
    /\ mcall = [p \in Procs |-> NoMemCall]
    /\ mret = [p \in Procs |-> NoMemRet]
    /\ mutated = [p \in Procs |-> FALSE]
    /\ added = {}
    /\ nextId = 0
    /\ nops = 0
    /\ NoEmbeddingCache
    /\ NoUpsertRunning
    /\ NoSimilarity
    /\ NoBatch
    /\ \E strategy \in DeduplicationStrategy :
        \/ dedup = DeduplicatorNew(strategy)
        \/ \E threshold \in DedupThresholds : dedup = with_threshold(strategy, threshold)
    /\ dret = NoDedupCall
    /\ registered = {}
    /\ dclock = 0
    /\ given = EmptyMap

NextDedup ==
    \/ DedupRegister
    \/ DedupIsDuplicate
    \/ DedupGetDuplicate
    \/ DedupClear
    \/ DedupCacheSize

SpecDedup == InitDedup /\ [][NextDedup]_vars

-----------------------------------------------------------------------------
(* The library's functions and BatchResult, each used alone *)

\* the store, Memory, the cache and the Deduplicator are not in use
OnlyFunctions ==
    /\ collections = EmptyMap
    /\ lock = [p \in Procs |-> "none"]
    /\ phase = [p \in Procs |-> "none"]
    /\ scall = [p \in Procs |-> NoCall]
    /\ sret = [p \in Procs |-> NoRet]
    /\ mpc = [p \in Procs |-> "idle"]
    /\ mcall = [p \in Procs |-> NoMemCall]
    /\ mret = [p \in Procs |-> NoMemRet]
    /\ mutated = [p \in Procs |-> FALSE]
    /\ added = {}
    /\ nextId = 0
    /\ nops = 0
    /\ NoEmbeddingCache
    /\ NoUpsertRunning
    /\ NoDeduplicator

InitSimilarity == OnlyFunctions /\ NoSimilarity /\ NoBatch

NextSimilarity ==
    \/ CallComputeSimilarity
    \/ CallUtilsCosineSimilarity
    \/ CallStoreCosineSimilarity

SpecSimilarity == InitSimilarity /\ [][NextSimilarity]_vars

\* BatchResult::new(total)
InitBatchResult ==
    /\ OnlyFunctions
    /\ NoSimilarity
    /\ \E total \in BatchTotals :
        /\ result = BatchResultNew(total)
        /\ rcalls = [total |-> total, add_success |-> 0, add_error |-> 0]
    /\ rret = BatchCall("none", FALSE)
    /\ split = NoSplit

NextBatchResult == AddSuccess \/ AddError \/ AllSucceeded

SpecBatchResult == InitBatchResult /\ [][NextBatchResult]_vars

\* BatchProcessor::new(batch_size)
InitSplit ==
    /\ OnlyFunctions
    /\ NoSimilarity
    /\ result = BatchResultNew(0)
    /\ rcalls = [total |-> 0, add_success |-> 0, add_error |-> 0]
    /\ rret = BatchCall("none", FALSE)
    /\ \E batch_size \in BatchSizes : split = [NoSplit EXCEPT !.self = BatchProcessorNew(batch_size)]

NextSplit == SplitIntoBatches

SpecSplit == InitSplit /\ [][NextSplit]_vars

-----------------------------------------------------------------------------
(* Concurrent tasks calling the store, upsert running statement by statement *)

NextUpsert ==
    \E p \in Procs :
        \/ StoreCall(p)
        \/ Acquire(p)
        \/ StoreDone(p)
        \/ UpsertEntry(p)
        \/ UpsertInsert(p)
        \/ UpsertReturn(p)
        \/ CreateCollectionBody(p)
        \/ CollectionExistsBody(p)
        \/ SearchBody(p)
        \/ DeleteBody(p)
        \/ DeleteCollectionBody(p)
        \/ CountBody(p)

SpecUpsert == Init /\ [][NextUpsert]_vars

\* the call op of the cache is made in this step
CacheCalled(op) == clock' = clock + 1 /\ cret'.op = op
\* a put of a hash that is not cached, made when size() >= max_size
PutNewAtCapacity == CacheCalled("put") /\ ~cret'.old.some /\ cret'.full
\* the cached hashes touched least recently (last put or last get hit)
LruKeys == {k \in DOMAIN cache : \A y \in DOMAIN cache : touched[k] <= touched[y]}
\* every hash the step does not evict stays, with its embedding
OthersStay ==
    \A k \in DOMAIN cache \ cret'.evicted :
        /\ k \in DOMAIN cache'
        /\ k # compute_hash(cret'.text) => cache'[k] = cache[k]

\* C18: a put of a key that is not in the cache, made when the cache is at
\* capacity, evicts exactly one key, the least recently touched one (last put
\* or last get hit); all other keys stay; max_size + 1 distinct keys put in a
\* row therefore evict only the first one.
C18_PutEvictsOne ==
    [][PutNewAtCapacity =>
        /\ Cardinality(cret'.evicted) = 1
        /\ cret'.evicted \subseteq LruKeys
        /\ OthersStay
        /\ (clock = max_size /\ size(Self) = max_size)
            => cret'.evicted = {k \in CacheKeys : touched[k] = 1}]_vars

\* What put does keep: while the cache holds a key, a put of a new key at
\* capacity evicts exactly the least recently touched key, all other keys stay
\* and the new key is cached; only a cache of max_size = 0 has no key to evict
\* at capacity, and caches the key all the same (cache.rs:51-57).
PutEvictsLruWhenNonEmpty ==
    [][PutNewAtCapacity =>
        /\ IF DOMAIN cache = {}
           THEN max_size = 0 /\ cret'.evicted = {}
           ELSE Cardinality(cret'.evicted) = 1 /\ cret'.evicted \subseteq LruKeys
        /\ OthersStay
        /\ compute_hash(cret'.text) \in DOMAIN cache'
        /\ cache'[compute_hash(cret'.text)] = cret'.embedding
        /\ (max_size >= 1 /\ clock = max_size /\ size(Self) = max_size)
            => cret'.evicted = {k \in CacheKeys : touched[k] = 1}]_vars

\* C19: a get that hits makes its key the most recently used: afterwards the
\* key is evicted only when no other key that was cached at the hit and has
\* not been touched since is still cached.
C19_GetRefreshes ==
    [][/\ (CacheCalled("get") /\ cret'.ret.some) =>
            /\ cache' = cache
            /\ access_order'[Len(access_order')] = compute_hash(cret'.text)
            /\ Retain(access_order', compute_hash(cret'.text))
                = Retain(access_order, compute_hash(cret'.text))
       /\ \A k \in CacheKeys :
            (CacheCalled("put") /\ k \in cret'.evicted /\ hit[k] > 0)
                => \A y \in DOMAIN cache \ {k} : touched[y] > hit[k]]_vars

\* in a cache of capacity 2 a key was cached, then another, a get hit one of
\* them, and the put of a third key evicted the other one
C19_Witness ==
    /\ max_size = 2
    /\ clock = 4
    /\ cret.op = "put"
    /\ Cardinality(cret.evicted) = 1
    /\ \E k \in DOMAIN cache : hit[k] = 3 /\ touched[k] = 3

\* C20: put of a key that is in the cache replaces its value, makes it the
\* most recently used key, evicts nothing and leaves size() unchanged, also
\* at capacity; a get of the key then returns the new value.
C20_PutCachedKey ==
    [][/\ (CacheCalled("put") /\ cret'.old.some) =>
            LET hash == compute_hash(cret'.text)
            IN  /\ cache'[hash] = cret'.embedding
                /\ cret'.evicted = {}
                /\ DOMAIN cache' = DOMAIN cache
                /\ size(EmbeddingCache(cache', access_order', max_size')) = size(Self)
                /\ \A k \in DOMAIN cache \ {hash} : cache'[k] = cache[k]
                /\ access_order'[Len(access_order')] = hash
                /\ Retain(access_order', hash) = Retain(access_order, hash)
                /\ \A y \in DOMAIN cache' \ {hash} : touched'[y] < touched'[hash]
       /\ CacheCalled("get") =>
            cret'.ret = (IF compute_hash(cret'.text) \in DOMAIN cache
                         THEN Some(cache[compute_hash(cret'.text)]) ELSE NoEmbedding)]_vars

\* in a full cache of capacity 2 the put of the least recently used key has
\* replaced its embedding by another one
C20_Witness ==
    /\ max_size = 2
    /\ cret.op = "put"
    /\ cret.old.some
    /\ cret.full
    /\ cret.old.val # cret.embedding
    /\ Cardinality(DOMAIN cache) = 2
    /\ cache[compute_hash(cret.text)] = cret.embedding
    /\ \E k \in DOMAIN cache : touched[k] > 0 /\ touched[k] < clock - 1

\* C21: the cache is bounded: for every capacity fixed at construction, 0
\* included, and after any sequence of put, get, contains and clear, size() is
\* at most the capacity.
C21_Bounded == size(Self) <= max_size

\* What the cache does keep: size() never exceeds the capacity or 1, whichever
\* is larger, and the capacity never changes.
BoundedByCapacityOrOne ==
    /\ size(Self) <= (IF max_size = 0 THEN 1 ELSE max_size)
    /\ [][max_size' = max_size]_vars

\* C22: with the Exact strategy is_duplicate(c) is false while c has not been
\* registered since construction or the last clear, and true from register(c, id)
\* on until clear; registering c makes no other content a duplicate.
C22_ExactDuplicates ==
    dedup.strategy = "Exact" =>
        /\ \A c \in DedupContents : is_duplicate(dedup, c) = (c \in registered)
        /\ dret.op = "is_duplicate" => dret.ret = (dret.content \in registered)

\* with Exact, one content was registered and is_duplicate has just answered
\* true for it, while the other content is no duplicate
C22_Witness ==
    /\ dedup.strategy = "Exact"
    /\ dret.op = "is_duplicate"
    /\ dret.ret = TRUE
    /\ \E c \in DedupContents : c \notin registered /\ ~is_duplicate(dedup, c)

\* C23: with the None strategy, after any sequence of register calls,
\* is_duplicate is false and get_duplicate returns no id for every content,
\* and cache_size() stays 0.
C23_NoneStoresNothing ==
    dedup.strategy = None =>
        /\ \A c \in DedupContents :
            ~is_duplicate(dedup, c) /\ get_duplicate(dedup, c) = NoId
        /\ cache_size(dedup) = 0
        /\ dret.op = "is_duplicate" => dret.ret = FALSE
        /\ dret.op = "get_duplicate" => dret.ret = NoId
        /\ dret.op = "cache_size" => dret.ret = 0

\* with None, both contents were registered and cache_size has just returned 0
C23_Witness ==
    /\ dedup.strategy = None
    /\ registered = DedupContents
    /\ dret.op = "cache_size"
    /\ dret.ret = 0

\* the (collection, id) pairs the store holds
StoreEntries ==
    UNION {{<<name, id>> : id \in DOMAIN collections[name]} : name \in DOMAIN collections}
\* the ids the store holds, in any collection
StoredIds == UNION {DOMAIN collections[name] : name \in DOMAIN collections}
\* the add calls whose upsert has returned Ok while add has not returned yet
StoredInFlight(u) ==
    {p \in Procs : /\ mpc[p] = "add_upsert" /\ phase[p] = "returned"
                   /\ sret[p].status = "ok" /\ mcall[p].user = u}
\* no add call is running
NoAddRunning == \A p \in Procs : mcall[p].op = "add" => mpc[p] = "done"

\* C24: identifiers are unique and add never deduplicates: after n successful
\* add calls on one Memory (any users, any contents, identical ones included)
\* the store holds exactly n entries, with pairwise distinct ids, and the
\* count of a user's collection is the number of adds made for that user.
C24_AddNeverDeduplicates ==
    /\ Cardinality({a.item.id : a \in added}) = Cardinality(added)
    /\ Cardinality(StoredIds) = Cardinality(StoreEntries)
    /\ \A u \in Users :
        LET n == Cardinality({a \in added : a.user = u}) + Cardinality(StoredInFlight(u))
        IN  /\ n > 0 => get_collection_name(u) \in DOMAIN collections
            /\ Cardinality(DOMAIN EntriesOf(collections, get_collection_name(u))) = n
            /\ \A a \in added : a.user = u => a.item.id \in DOMAIN collections[get_collection_name(u)]
    /\ NoAddRunning => Cardinality(StoreEntries) = Cardinality(added)

\* four adds have returned, two of them with the same user, content and
\* type: the store holds four entries
C24_Witness ==
    /\ NoAddRunning
    /\ Cardinality(added) = 4
    /\ \E a, b \in added :
        /\ a.item.id # b.item.id
        /\ a.user = b.user /\ a.content = b.content /\ a.mtype = b.mtype
    /\ Cardinality(StoreEntries) = 4

\* the stages of add, search and get_all at which ensure_collection runs
EnsureStages == {"add_ensure", "search_ensure", "getall_ensure"}

\* C25: collections are created lazily and never removed by Memory: the first
\* add, search or get_all for a user creates that user's collection, and once
\* a collection exists it exists in every later state reachable through add,
\* search, update, delete and get_all; only an explicit delete_collection on
\* the store removes it.
C25_LazyAndKept ==
    [][/\ \A p \in Procs :
            (mpc[p] \in EnsureStages /\ phase[p] = "body" /\ phase'[p] = "returned")
                => /\ scall[p].name = get_collection_name(mcall[p].user)
                   /\ scall[p].name \in DOMAIN collections'
                   /\ sret'[p].status = "ok"
       /\ \A name \in DOMAIN collections' \ DOMAIN collections :
            \E p \in Procs :
                /\ mpc[p] \in EnsureStages \cup {"add_upsert"} /\ phase[p] = "body"
                /\ name = get_collection_name(mcall[p].user)
                /\ mpc[p] \in EnsureStages => collections'[name] = EmptyMap
       /\ \A name \in DOMAIN collections \ DOMAIN collections' :
            \E p \in Procs :
                /\ mpc[p] = "idle" /\ phase[p] = "body"
                /\ scall[p] = DeleteCollectionCall(name)]_vars

\* over a new store the first search for u2 has created the collection of u2
\* and has returned, and the collection is still there after another Memory
\* call has returned as well
C25_Witness ==
    /\ added = {}
    /\ DOMAIN collections = {get_collection_name("u2")}
    /\ \E p, q \in Procs :
        /\ p # q
        /\ mpc[p] = "done" /\ mcall[p].op = "search" /\ mcall[p].user = "u2"
        /\ mret[p].status = "ok"
        /\ mpc[q] = "done" /\ mcall[q].op \in {"update", "delete"}

\* the add calls for user u that have returned Ok to their caller
AddsDone(u) ==
    {p \in Procs : /\ mpc[p] = "done" /\ mcall[p].op = "add" /\ mcall[p].user = u
                   /\ mret[p].status = "ok"}
\* the ids of the add calls for user u that are done or have stored their entry
AddIds(u) ==
    {mret[p].item.id : p \in AddsDone(u)} \cup {mcall[p].memory.id : p \in StoredInFlight(u)}

\* C26: concurrent adds are never lost: for any interleaving of k concurrent add
\* calls for the same user that all succeed, also when the user's collection
\* did not exist before, the collection ends with exactly k more entries than
\* before, one per returned item id.
C26_ConcurrentAddsKept ==
    \A u \in Users :
        LET name == get_collection_name(u)
        IN  AddIds(u) # {} =>
                /\ name \in DOMAIN collections
                /\ AddIds(u) \subseteq DOMAIN collections[name]
                /\ Cardinality(AddIds(u))
                    = Cardinality(AddsDone(u)) + Cardinality(StoredInFlight(u))
                /\ \A p \in AddsDone(u) :
                    collections[name][mret[p].item.id].metadata
                        = to_vector_metadata(mret[p].item)
                /\ Cardinality(DOMAIN collections[name] \ AddIds(u))
                    = Cardinality({a \in added : a.user = u /\ a.item.id \notin AddIds(u)})

\* two adds for u2, whose collection did not exist, overlapped: the one that
\* drew its id second has returned while the other, which drew its id first,
\* has not returned yet; the collection holds both entries
C26_Witness ==
    \E p, q \in Procs :
        /\ p \in AddsDone("u2")
        /\ mret[p].item.id = MemId(2)
        /\ q \in StoredInFlight("u2")
        /\ mcall[q].memory.id = MemId(1)
        /\ DOMAIN collections[get_collection_name("u2")] = {MemId(1), MemId(2)}

\* the upsert of caller q has started and has not returned
UpsertRunning(q) == scall[q].op = "upsert" /\ upsert_pc[q] >= 1
\* the upsert of caller q has applied some of its batch and not all of it
UpsertPartial(q) == scall[q].op = "upsert" /\ upsert_pc[q] \in 2..Len(scall[q].batch)

\* C27: a multi-entry upsert is atomic for readers: no search or count that
\* runs concurrently with upsert(name, batch) observes a state in which only
\* some of the batch's entries are applied; it reads the map while no upsert
\* is between its first statement and its return.
C27_UpsertAtomic ==
    \A p \in Procs :
        (Accessing(p) /\ scall[p].op \in {"search", "count"})
            => \A q \in Procs : ~UpsertRunning(q) /\ ~UpsertPartial(q)

\* an upsert of two entries has applied the first one only, while a count of
\* the same collection waits for the guard
C27_Witness ==
    \E p, q \in Procs :
        /\ UpsertPartial(q)
        /\ Len(scall[q].batch) = 2
        /\ scall[p].op = "count"
        /\ scall[p].name = scall[q].name
        /\ phase[p] = "acquire"
        /\ Cardinality(DOMAIN collections[scall[q].name]) = 1

\* a Memory call of caller p has started and has not returned
MemRunning(p) == mpc[p] \notin {"idle", "done"}

\* C28: no deadlock: a store operation holds the lock only from its acquire
\* to its return and Memory holds no guard between its store calls; so under
\* fair scheduling of the lock and the tasks, with an Embedder that returns,
\* every started add, search, get_all, update and delete eventually returns.
C28_EveryCallReturns ==
    /\ [](\A p \in Procs : lock[p] # "none" => phase[p] = "body")
    /\ \A p \in Procs : MemRunning(p) ~> (mpc[p] = "done")

\* an add waits for the write guard of its upsert while the other caller's
\* add holds it
C28_Witness ==
    \E p, q \in Procs :
        /\ p # q
        /\ mpc[p] = "add_upsert" /\ phase[p] = "acquire"
        /\ mcall[q].op = "add" /\ lock[q] = "write"
        /\ ~CanAcquire(p, LockMode(scall[p].op))

\* caller p is in an update or a delete call, or has its result
InUpdateOrDelete(p) == mpc[p] # "idle" /\ mcall[p].op \in {"update", "delete"}

\* C29: Memory::update and Memory::delete return success for every memory_id,
\* known or unknown, and leave the vector store unchanged.
C29_UpdateDeleteSucceed ==
    \A p \in Procs :
        InUpdateOrDelete(p) =>
            /\ ~mutated[p]
            /\ mpc[p] = "done" => mret[p].status = "ok"

\* C29, amended: delete returns success for every memory_id; update returns
\* success with an item of the given id and content for every memory_id when
\* the Embedder returns an embedding, and the Embedder's error when it fails;
\* neither changes the vector store, whatever it returns.
C29_UpdateDeleteKeepStore ==
    \A p \in Procs :
        InUpdateOrDelete(p) =>
            /\ ~mutated[p]
            /\ (mpc[p] = "done" /\ mcall[p].op = "delete") => mret[p] = MemOk
            /\ (mpc[p] = "done" /\ mcall[p].op = "update") =>
                \/ /\ mret[p].status = "ok"
                   /\ mret[p].item.id = mcall[p].id
                   /\ mret[p].item.content = mcall[p].content
                \/ mret[p] = MemErr(EmbeddingError)

\* over the seeded store an update of one stored id has returned an item and
\* a delete of the other has returned Ok, and the store is as it was
C29_Witness ==
    /\ collections = SeededStore
    /\ \E p, q \in Procs :
        /\ mpc[p] = "done" /\ mcall[p].op = "update" /\ mcall[p].id = Seeded1.id
        /\ mret[p].status = "ok"
        /\ mpc[q] = "done" /\ mcall[q].op = "delete" /\ mcall[q].id = Seeded2.id
        /\ mret[q] = MemOk

\* the collections whose presence or entries the step changes
ChangedNames ==
    {name \in DOMAIN collections \cup DOMAIN collections' :
        \/ name \notin DOMAIN collections
        \/ name \notin DOMAIN collections'
        \/ collections'[name] # collections[name]}

\* the items a returned get_all or search call gave its caller
ItemsReturned(p) ==
    IF mcall[p].op = "get_all" THEN {mret[p].items[i] : i \in 1..Len(mret[p].items)}
    ELSE {mret[p].items[i].memory : i \in 1..Len(mret[p].items)}

\* C30: per-user isolation: add(u, ...) changes only the collection named
\* prefix + "_" + u, distinct user ids map to distinct collection names, and
\* after any sequence of adds for any users every item returned by get_all(u)
\* or search(u, ...) has user_id equal to u.
C30_PerUserIsolation ==
    /\ [](\A u, v \in Users : u # v => get_collection_name(u) # get_collection_name(v))
    /\ [](\A p \in Procs :
            (mpc[p] = "done" /\ mcall[p].op \in {"get_all", "search"} /\ mret[p].status = "ok")
                => \A m \in ItemsReturned(p) : m.user_id = mcall[p].user)
    /\ [][\A name \in ChangedNames :
            \E p \in Procs :
                /\ phase[p] = "body" /\ phase'[p] = "returned"
                /\ mcall[p].op \in {"add", "search", "get_all"}
                /\ name = get_collection_name(mcall[p].user)]_vars

\* both users have entries, and a get_all for u2 has returned the one item of u2
C30_Witness ==
    /\ DOMAIN collections = {get_collection_name("u1"), get_collection_name("u2")}
    /\ collections[get_collection_name("u1")] = SeededStore[get_collection_name("u1")]
    /\ Cardinality(DOMAIN collections[get_collection_name("u2")]) = 1
    /\ \E p \in Procs :
        /\ mpc[p] = "done" /\ mcall[p].op = "get_all" /\ mcall[p].user = "u2"
        /\ mret[p].status = "ok"
        /\ Len(mret[p].items) = 1
        /\ mret[p].items[1].user_id = "u2"

\* the MemoryItems a returned Memory call gave its caller
ItemsGiven(p) ==
    IF mcall[p].op \in {"add", "update"} THEN {mret[p].item}
    ELSE IF mcall[p].op \in {"get_all", "search"} THEN ItemsReturned(p)
    ELSE {}

\* C31: every MemoryItem returned by add has created_at equal to updated_at,
\* and every MemoryItem produced by add, update, search or get_all has
\* updated_at >= created_at (the clock does not go backwards).
C31_Timestamps ==
    \A p \in Procs :
        (mpc[p] = "done" /\ mret[p].status = "ok") =>
            /\ mcall[p].op = "add" => mret[p].item.created_at = mret[p].item.updated_at
            /\ \A m \in ItemsGiven(p) : m.updated_at >= m.created_at

\* an update has returned an item whose updated_at is later than its
\* created_at, and an add has returned an item
C31_Witness ==
    \E p, q \in Procs :
        /\ mpc[p] = "done" /\ mcall[p].op = "update" /\ mret[p].status = "ok"
        /\ mret[p].item.updated_at > mret[p].item.created_at
        /\ mpc[q] = "done" /\ mcall[q].op = "add" /\ mret[q].status = "ok"

\* the items that add calls have stored: those of the returned adds, and
\* those of the adds that have called upsert and have not returned
ItemsStoredByAdd ==
    {a.item : a \in added}
        \cup {mcall[q].memory : q \in {r \in Procs : mcall[r].op = "add" /\ mpc[r] = "add_upsert"}}

\* C32: lossy round trip: an item read back through get_all or search equals
\* the item returned by the add that stored it in id, user_id, agent_id,
\* run_id, content, memory_type, created_at, updated_at and metadata, and
\* differs only in hash: empty on the read path, the content's hash from add.
C32_LossyRoundTrip ==
    \A p \in Procs :
        (mpc[p] = "done" /\ mcall[p].op \in {"get_all", "search"} /\ mret[p].status = "ok") =>
            \A m \in ItemsReturned(p) :
                \E item \in ItemsStoredByAdd :
                    /\ m = [item EXCEPT !.hash = ""]
                    /\ item.hash = compute_hash(item.content)
                    /\ m.hash # item.hash

\* a search and a get_all have both returned an item that an add had returned
C32_Witness ==
    \E p, q \in Procs :
        /\ mpc[p] = "done" /\ mcall[p].op = "search" /\ mret[p].status = "ok"
        /\ mpc[q] = "done" /\ mcall[q].op = "get_all" /\ mret[q].status = "ok"
        /\ \E a \in added :
            /\ [a.item EXCEPT !.hash = ""] \in ItemsReturned(p) \cap ItemsReturned(q)
            /\ a.item.hash = compute_hash(a.content)

\* the id given to the most recent register of content c
LastGiven(c) == given[c][Len(given[c])]

\* C33: with Exact, get_duplicate(c) returns an id exactly when
\* is_duplicate(c) is true, and the id is the one given to the most recent
\* register(c, id); registering a content again replaces the id and leaves
\* cache_size() unchanged: cache_size() is the number of distinct contents
\* registered since the last clear.
C33_LastRegisteredId ==
    dedup.strategy = "Exact" =>
        /\ \A c \in DedupContents :
            /\ get_duplicate(dedup, c).some = is_duplicate(dedup, c)
            /\ get_duplicate(dedup, c) = (IF c \in DOMAIN given THEN Some(LastGiven(c)) ELSE NoId)
        /\ cache_size(dedup) = Cardinality(DOMAIN given)
        /\ dret.op = "get_duplicate" => dret.ret = get_duplicate(dedup, dret.content)
        /\ dret.op = "cache_size" => dret.ret = Cardinality(DOMAIN given)

\* with Exact, c1 was registered with id_1 and then with id_2, c2 never:
\* get_duplicate(c1) has just returned id_2, and cache_size() is 1
C33_Witness ==
    /\ dedup.strategy = "Exact"
    /\ given = Put(EmptyMap, "c1", <<"id_1", "id_2">>)
    /\ dret.op = "get_duplicate"
    /\ dret.content = "c1"
    /\ dret.ret = Some("id_2")
    /\ cache_size(dedup) = 1

\* the Deduplicator that Deduplicator::new(Exact) is after the calls self has had
ExactTwin(self) ==
    [self EXCEPT !.strategy = "Exact",
                 !.similarity_threshold = DeduplicatorNew("Exact").similarity_threshold]

\* the Deduplicator call that has just ended answered as the Exact twin answers
AnswersAsExact ==
    LET twin == ExactTwin(dedup)
        call == dret'
    IN  /\ call.op = "register" =>
            ExactTwin(dedup') = register(twin, call.content, call.id)
        /\ call.op = "is_duplicate" =>
            call.ret = is_duplicate(twin, call.content) /\ ExactTwin(dedup') = twin
        /\ call.op = "get_duplicate" =>
            call.ret = get_duplicate(twin, call.content) /\ ExactTwin(dedup') = twin
        /\ call.op = "cache_size" =>
            call.ret = cache_size(twin) /\ ExactTwin(dedup') = twin
        /\ call.op = "clear" => ExactTwin(dedup') = dedup_clear(twin)
        /\ dedup'.strategy = dedup.strategy
        /\ dedup'.similarity_threshold = dedup.similarity_threshold

CacheKept == cache' = cache /\ access_order' = access_order /\ max_size' = max_size

\* C36: contains(text) and a get that misses leave the cache unchanged,
\* recency order included; contains(k) does not refresh k's recency, so a put
\* that evicts still evicts the key whose last put or get hit is the oldest,
\* however often the key was checked with contains since.
C36_ContainsAndMissKeep ==
    [][/\ CacheCalled("contains") =>
            CacheKept /\ cret'.ret = (compute_hash(cret'.text) \in DOMAIN cache)
       /\ (CacheCalled("get") /\ compute_hash(cret'.text) \notin DOMAIN cache) =>
            CacheKept /\ cret'.ret = NoEmbedding
       /\ (CacheCalled("put") /\ cret'.evicted # {}) =>
            cret'.evicted = {Head(access_order)} /\ cret'.evicted \subseteq LruKeys]_vars

\* in a full cache of capacity 2 contains has just answered true for the least
\* recently used key, which still is the first to be evicted
C36_Witness ==
    /\ max_size = 2
    /\ cret.op = "contains"
    /\ cret.ret = TRUE
    /\ Len(access_order) = 2
    /\ compute_hash(cret.text) = Head(access_order)
    /\ \A y \in DOMAIN cache : touched[compute_hash(cret.text)] <= touched[y]

\* C39: after any sequence of put, get, contains and clear, access_order holds
\* exactly the keys of the cache map, each exactly once, and clear leaves both
\* empty.
C39_OrderMatchesCache ==
    /\ {access_order[i] : i \in DOMAIN access_order} = DOMAIN cache
    /\ Len(access_order) = Cardinality(DOMAIN cache)
    /\ cret.op = "clear" => (cache = EmptyMap /\ access_order = <<>>)

\* a cache of capacity 2 held two keys, a get hit has moved the older one to
\* the end of access_order, and clear has just removed both
C39_Witness ==
    /\ max_size = 2
    /\ clock = 4
    /\ cret.op = "clear"
    /\ Cardinality(cret.evicted) = 2
    /\ cache = EmptyMap
    /\ access_order = <<>>

\* v has numbers only and a component that is not 0.0
NonZeroVector(v) ==
    /\ \A i \in DOMAIN v : ~v[i].nan /\ ~IsInf(v[i])
    /\ \E i \in DOMAIN v : v[i].num # 0
\* every component of v is 0.0, so the norm of v is zero
ZeroNorm(v) == \A i \in DOMAIN v : ~v[i].nan /\ v[i].num = 0
\* the component without its power of two
Unscaled(x) == F(x.num, x.den)
\* the dot product of a and b is zero in exact arithmetic (the components of
\* a vector of SimilarityVectors that are not 0.0 have the same scale)
Orthogonal(a, b) ==
    /\ Len(a) = Len(b)
    /\ FEq(Dot([i \in DOMAIN a |-> Unscaled(a[i])], [i \in DOMAIN b |-> Unscaled(b[i])]), FZero)

\* C35: cosine similarity returns 0.0 whenever the two vectors differ in
\* length, either is empty, or either has zero norm, for
\* Deduplicator::compute_similarity, utils::cosine_similarity and the store's
\* cosine_similarity alike; for a nonzero v the similarity of v with itself is
\* 1.0, and of two orthogonal nonzero vectors it is 0.0.
C35_CosineSimilarity ==
    sim.fn # "none" =>
        /\ (Len(sim.vec1) # Len(sim.vec2) \/ sim.vec1 = <<>> \/ sim.vec2 = <<>>
                \/ ZeroNorm(sim.vec1) \/ ZeroNorm(sim.vec2))
            => FEq(sim.ret, FZero)
        /\ (sim.vec1 = sim.vec2 /\ NonZeroVector(sim.vec1)) => FEq(sim.ret, F(1, 1))
        /\ (NonZeroVector(sim.vec1) /\ NonZeroVector(sim.vec2) /\ Orthogonal(sim.vec1, sim.vec2))
            => FEq(sim.ret, FZero)

\* the sum of the squares of v is computed without overflow or underflow:
\* the norm is a number, and it is 0.0 only when v is all zeros
NormComputed(v) ==
    /\ \A i \in DOMAIN v : ~v[i].nan /\ v[i].scale = 0
    /\ \E i \in DOMAIN v : v[i].num # 0

\* What the three functions do keep: the 0.0 cases always, the three functions
\* agree on every pair of slices, and the similarity of v with itself is 1.0
\* and of orthogonal vectors 0.0 when the norms are computed without overflow
\* or underflow.
CosineWithinRange ==
    sim.fn # "none" =>
        /\ (Len(sim.vec1) # Len(sim.vec2) \/ sim.vec1 = <<>> \/ sim.vec2 = <<>>
                \/ ZeroNorm(sim.vec1) \/ ZeroNorm(sim.vec2))
            => FEq(sim.ret, FZero)
        /\ sim.ret = compute_similarity(sim.vec1, sim.vec2)
        /\ sim.ret = utils_cosine_similarity(sim.vec1, sim.vec2)
        /\ sim.ret = cosine_similarity(sim.vec1, sim.vec2)
        /\ (sim.vec1 = sim.vec2 /\ NormComputed(sim.vec1)) => FEq(sim.ret, F(1, 1))
        /\ (NormComputed(sim.vec1) /\ NormComputed(sim.vec2) /\ Orthogonal(sim.vec1, sim.vec2))
            => FEq(sim.ret, FZero)

\* C37: after any sequence of add_success and add_error calls, successful
\* is the number of add_success calls, failed is the number of add_error calls
\* and the number of stored error messages, total is the one given to new, and
\* all_succeeded() is true exactly when no add_error was called.
C37_BatchAccounting ==
    /\ result.successful = rcalls.add_success
    /\ result.failed = rcalls.add_error
    /\ Len(result.errors) = rcalls.add_error
    /\ result.total = rcalls.total
    /\ all_succeeded(result) = (rcalls.add_error = 0)
    /\ rret.op = "all_succeeded" => rret.ret = (rcalls.add_error = 0)

\* after BatchResult::new(3), two add_success and one add_error,
\* all_succeeded() has just answered false
C37_Witness ==
    /\ rcalls = [total |-> 3, add_success |-> 2, add_error |-> 1]
    /\ result.successful = 2
    /\ result.failed = 1
    /\ Len(result.errors) = 1
    /\ rret = BatchCall("all_succeeded", FALSE)

\* the batches one after another
RECURSIVE Concat(_)
Concat(batches) ==
    IF batches = <<>> THEN <<>> ELSE Head(batches) \o Concat(Tail(batches))

\* C38: split_into_batches with batch_size >= 1 partitions the operation
\* list in order: the batches concatenated give back the input, every batch
\* but the last has exactly batch_size operations, the last has between 1 and
\* batch_size, and an empty input gives no batch.
C38_SplitPartitions ==
    (split.called /\ split.self.batch_size >= 1) =>
        /\ ~split.panicked
        /\ Concat(split.batches) = split.ops
        /\ \A i \in 1..(Len(split.batches) - 1) : Len(split.batches[i]) = split.self.batch_size
        /\ split.batches # <<>> =>
            /\ Len(split.batches[Len(split.batches)]) >= 1
            /\ Len(split.batches[Len(split.batches)]) <= split.self.batch_size
        /\ split.ops = <<>> => split.batches = <<>>

\* four operations were split with batch_size 3 into a batch of the first
\* three and a batch of the fourth
C38_Witness ==
    /\ split.called
    /\ split.self.batch_size = 3
    /\ Len(split.ops) = 4
    /\ split.batches = <<SubSeq(split.ops, 1, 3), SubSeq(split.ops, 4, 4)>>

====
